---- MODULE Spec2Model ----
(***************************************************************************)
(* A model of the intake-to-document pipeline of wealth-agent: the intake  *)
(* reader and field normaliser of app.py, the household composition of the *)
(* Register Client page, the client context builder, and the field mappers *)
(* and fallback renderer of pdf_filler.py, and the Fill & Download PDFs    *)
(* batch of the Onboarding page.                                           *)
(*                                                                         *)
(* Text is modelled as a sequence of one-character strings, so that        *)
(* strip(), lower(), split() and substring tests are computed as Python    *)
(* computes them.  A Python dict is modelled as a sequence of <<key,       *)
(* value>> pairs with pairwise distinct keys, in insertion order.          *)
(***************************************************************************)
EXTENDS Integers, Sequences, FiniteSets, TLC

(***************************************************************************)
(* Text helpers (Python str methods).                                      *)
(***************************************************************************)
UpperChars == <<"A", "B", "C", "D", "E", "F", "G", "H", "I", "J", "K", "L", "M", "N", "O", "P", "Q", "R", "S", "T", "U", "V", "W", "X", "Y", "Z">>
LowerChars == <<"a", "b", "c", "d", "e", "f", "g", "h", "i", "j", "k", "l", "m", "n", "o", "p", "q", "r", "s", "t", "u", "v", "w", "x", "y", "z">>

\* str.lower() on one character
LowerChar(c) ==
  IF \E i \in 1..Len(UpperChars) : UpperChars[i] = c
  THEN LowerChars[CHOOSE i \in 1..Len(UpperChars) : UpperChars[i] = c]
  ELSE c

\* str.lower()
Lower(s) == [i \in 1..Len(s) |-> LowerChar(s[i])]

\* the characters str.strip() and str.split() treat as whitespace
IsSpace(c) == c \in {" ", "\t"}

RECURSIVE LStrip(_)
LStrip(s) == IF s # <<>> /\ IsSpace(Head(s)) THEN LStrip(Tail(s)) ELSE s

RECURSIVE RStrip(_)
RStrip(s) ==
  IF s # <<>> /\ IsSpace(s[Len(s)]) THEN RStrip(SubSeq(s, 1, Len(s) - 1)) ELSE s

\* str.strip()
Strip(s) == RStrip(LStrip(s))

\* sub in s
Contains(s, sub) ==
  \E i \in 1..(Len(s) - Len(sub) + 1) : SubSeq(s, i, i + Len(sub) - 1) = sub

\* s.startswith(p)
StartsWith(s, p) == Len(s) >= Len(p) /\ SubSeq(s, 1, Len(p)) = p

\* str.split() with no argument: the maximal runs of non-whitespace
RECURSIVE SplitFrom(_, _)
SplitFrom(s, acc) ==
  LET t == LStrip(s)
  IN  IF t = <<>> THEN acc
      ELSE IF \A i \in 1..Len(t) : ~IsSpace(t[i]) THEN Append(acc, t)
      ELSE LET p == CHOOSE i \in 1..Len(t) :
                      IsSpace(t[i]) /\ \A j \in 1..(i - 1) : ~IsSpace(t[j])
           IN  SplitFrom(SubSeq(t, p + 1, Len(t)), Append(acc, SubSeq(t, 1, p - 1)))

Split(s) == SplitFrom(s, <<>>)

\* sep.join(parts)
RECURSIVE Join(_, _)
Join(parts, sep) ==
  IF parts = <<>> THEN <<>>
  ELSE IF Len(parts) = 1 THEN parts[1]
  ELSE parts[1] \o sep \o Join(Tail(parts), sep)

(***************************************************************************)
(* Dict helpers (Python dict, insertion ordered).                          *)
(***************************************************************************)
Keys(d) == {d[i][1] : i \in 1..Len(d)}

\* k in d
Has(d, k) == \E i \in 1..Len(d) : d[i][1] = k

\* d.get(k, dflt)
Get(d, k, dflt) ==
  IF Has(d, k) THEN d[CHOOSE i \in 1..Len(d) : d[i][1] = k][2] ELSE dflt

\* d[k] = v : an existing key keeps its position, a new key is appended
Put(d, k, v) ==
  IF Has(d, k)
  THEN [i \in 1..Len(d) |-> IF d[i][1] = k THEN <<k, v>> ELSE d[i]]
  ELSE Append(d, <<k, v>>)

\* d.setdefault(k, v) that assigns although k is present
SetDefaultOverwrite(d, k, v) == Put(d, k, v)

\* d.setdefault(k, v)
SetDefault(d, k, v) == IF Has(d, k) THEN d ELSE Append(d, <<k, v>>)

\* d1 == d2 on dicts: the same keys with the same values, in any order
DictEq(d1, d2) ==
  /\ Keys(d1) = Keys(d2)
  /\ \A k \in Keys(d1) : Get(d1, k, <<>>) = Get(d2, k, <<>>)

(***************************************************************************)
(* The field normaliser, app.py _parse_date and _normalize_fields.         *)
(***************************************************************************)
\* _parse_date keeping the stripped value whole
ParseDateWhole(val) == Strip(val)

\* _parse_date: the part before the first whitespace run when val holds a space
ParseDate(val) ==
  LET s == Strip(val)
  IN  IF Contains(s, <<" ">>) THEN Split(s)[1] ELSE s

\* the first rule's predicate: a full-name label
IsFullNameLabelOr(kl) ==
  \/ Contains(kl, <<"f", "i", "r", "s", "t">>) \/ Contains(kl, <<"l", "a", "s", "t">>)
  \/ kl \in {<<"f", "u", "l", "l", " ", "n", "a", "m", "e">>, <<"n", "a", "m", "e">>}

IsFullNameLabel(kl) ==
  \/ Contains(kl, <<"f", "i", "r", "s", "t">>) /\ Contains(kl, <<"l", "a", "s", "t">>)
  \/ kl \in {<<"f", "u", "l", "l", " ", "n", "a", "m", "e">>, <<"n", "a", "m", "e">>}

\* the rule "investment objective" / "objective" / "investment goal"
IsObjectiveLabel(kl) ==
  \/ Contains(kl, <<"i", "n", "v", "e", "s", "t", "m", "e", "n", "t", " ", "o", "b", "j", "e", "c", "t", "i", "v", "e">>)
  \/ Contains(kl, <<"o", "b", "j", "e", "c", "t", "i", "v", "e">>)
  \/ Contains(kl, <<"i", "n", "v", "e", "s", "t", "m", "e", "n", "t", " ", "g", "o", "a", "l">>)

\* the rule "risk" and "tolerance"
IsRiskToleranceLabel(kl) == Contains(kl, <<"r", "i", "s", "k">>) /\ Contains(kl, <<"t", "o", "l", "e", "r", "a", "n", "c", "e">>)

\* the body of the full-name rule, writing a Last Name for a single token too
SplitFullNameAlwaysLast(out, v) ==
  LET parts == Split(v)
  IN  IF Len(parts) >= 1
      THEN LET o2 == Put(Put(out, <<"F", "i", "r", "s", "t", " ", "N", "a", "m", "e">>, parts[1]),
                         <<"L", "a", "s", "t", " ", "N", "a", "m", "e">>, parts[Len(parts)])
           IN  IF Len(parts) = 3 THEN Put(o2, <<"M", "i", "d", "d", "l", "e", " ", "I", "n", "i", "t", "i", "a", "l">>, parts[2]) ELSE o2
      ELSE Put(out, <<"F", "i", "r", "s", "t", " ", "N", "a", "m", "e">>, v)

\* the body of the full-name rule
SplitFullName(out, v) ==
  LET parts == Split(v)
  IN  IF Len(parts) >= 2
      THEN LET o2 == Put(Put(out, <<"F", "i", "r", "s", "t", " ", "N", "a", "m", "e">>, parts[1]),
                         <<"L", "a", "s", "t", " ", "N", "a", "m", "e">>, parts[Len(parts)])
           IN  IF Len(parts) = 3 THEN Put(o2, <<"M", "i", "d", "d", "l", "e", " ", "I", "n", "i", "t", "i", "a", "l">>, parts[2]) ELSE o2
      ELSE Put(out, <<"F", "i", "r", "s", "t", " ", "N", "a", "m", "e">>, v)

\* the body of the "note" / "account" rule
AppendNote(out, v) ==
  LET existing == Get(out, <<"N", "o", "t", "e", "s">>, <<>>)
  IN  Put(out, <<"N", "o", "t", "e", "s">>,
          IF existing # <<>> THEN Strip(existing \o <<" ", " ">> \o v) ELSE v)

\* one iteration of the loop of _normalize_fields: the if/elif chain, in order
NormalizeItem(out, key, val) ==
  LET k  == Strip(key)
      kl == Lower(k)
      v  == Strip(val)
  IN  IF IsFullNameLabel(kl) THEN SplitFullName(out, v)
      ELSE IF kl \in {<<"f", "i", "r", "s", "t", " ", "n", "a", "m", "e">>, <<"f", "i", "r", "s", "t", "n", "a", "m", "e">>, <<"f", "i", "r", "s", "t">>}
        THEN Put(out, <<"F", "i", "r", "s", "t", " ", "N", "a", "m", "e">>, v)
      ELSE IF kl \in {<<"l", "a", "s", "t", " ", "n", "a", "m", "e">>, <<"l", "a", "s", "t", "n", "a", "m", "e">>, <<"l", "a", "s", "t">>}
        THEN Put(out, <<"L", "a", "s", "t", " ", "N", "a", "m", "e">>, v)
      ELSE IF kl \in {<<"d", "o", "b">>, <<"d", "a", "t", "e", " ", "o", "f", " ", "b", "i", "r", "t", "h">>, <<"b", "i", "r", "t", "h", "d", "a", "t", "e">>, <<"b", "i", "r", "t", "h", " ", "d", "a", "t", "e">>}
        THEN Put(out, <<"D", "a", "t", "e", " ", "o", "f", " ", "B", "i", "r", "t", "h">>, ParseDate(v))
      ELSE IF kl = <<"a", "d", "d", "r", "e", "s", "s">> THEN Put(out, <<"A", "d", "d", "r", "e", "s", "s">>, v)
      ELSE IF kl = <<"c", "i", "t", "y">> THEN Put(out, <<"C", "i", "t", "y">>, v)
      ELSE IF kl = <<"s", "t", "a", "t", "e">> THEN Put(out, <<"S", "t", "a", "t", "e">>, v)
      ELSE IF kl \in {<<"z", "i", "p">>, <<"z", "i", "p", " ", "c", "o", "d", "e">>, <<"p", "o", "s", "t", "a", "l", " ", "c", "o", "d", "e">>} THEN Put(out, <<"Z", "I", "P">>, v)
      ELSE IF kl = <<"p", "h", "o", "n", "e">> THEN Put(out, <<"P", "h", "o", "n", "e">>, v)
      ELSE IF kl = <<"e", "m", "a", "i", "l">> THEN Put(out, <<"E", "m", "a", "i", "l">>, v)
      ELSE IF Contains(kl, <<"a", "n", "n", "u", "a", "l", " ", "i", "n", "c", "o", "m", "e">>) THEN Put(out, <<"A", "n", "n", "u", "a", "l", " ", "I", "n", "c", "o", "m", "e">>, v)
      ELSE IF Contains(kl, <<"n", "e", "t", " ", "w", "o", "r", "t", "h">>) THEN Put(out, <<"E", "s", "t", ".", " ", "N", "e", "t", " ", "W", "o", "r", "t", "h">>, v)
      ELSE IF Contains(kl, <<"l", "i", "q", "u", "i", "d">>) THEN Put(out, <<"L", "i", "q", "u", "i", "d", " ", "A", "s", "s", "e", "t", "s">>, v)
      ELSE IF kl \in {<<"e", "m", "p", "l", "o", "y", "e", "r">>, <<"c", "o", "m", "p", "a", "n", "y">>, <<"f", "i", "r", "m">>} THEN Put(out, <<"E", "m", "p", "l", "o", "y", "e", "r">>, v)
      ELSE IF \/ Contains(kl, <<"o", "c", "c", "u", "p", "a", "t", "i", "o", "n">>) \/ Contains(kl, <<"t", "i", "t", "l", "e">>)
              \/ Contains(kl, <<"j", "o", "b", " ", "t", "i", "t", "l", "e">>)
        THEN Put(out, <<"O", "c", "c", "u", "p", "a", "t", "i", "o", "n">>, v)
      ELSE IF IsObjectiveLabel(kl)
        THEN SetDefault(SetDefault(out, <<"I", "n", "v", "e", "s", "t", "m", "e", "n", "t", " ", "G", "o", "a", "l">>, v), <<"R", "i", "s", "k", " ", "T", "o", "l", "e", "r", "a", "n", "c", "e">>, v)
      ELSE IF IsRiskToleranceLabel(kl) THEN Put(out, <<"R", "i", "s", "k", " ", "T", "o", "l", "e", "r", "a", "n", "c", "e">>, v)
      ELSE IF Contains(kl, <<"t", "i", "m", "e", " ", "h", "o", "r", "i", "z", "o", "n">>) \/ Contains(kl, <<"h", "o", "r", "i", "z", "o", "n">>)
        THEN Put(out, <<"T", "i", "m", "e", " ", "H", "o", "r", "i", "z", "o", "n", " ", "(", "y", "r", "s", ")">>, v)
      ELSE IF \/ Contains(kl, <<"r", "e", "f", "e", "r", "r", "a", "l">>) \/ Contains(kl, <<"l", "e", "a", "d", " ", "s", "o", "u", "r", "c", "e">>)
              \/ Contains(kl, <<"r", "e", "f", "e", "r", "r", "e", "d">>) \/ Contains(kl, <<"s", "o", "u", "r", "c", "e">>)
        THEN Put(out, <<"R", "e", "f", "e", "r", "r", "a", "l", " ", "S", "o", "u", "r", "c", "e">>, v)
      ELSE IF Contains(kl, <<"a", "d", "v", "i", "s", "o", "r">>) THEN SetDefault(out, <<"R", "e", "f", "e", "r", "r", "a", "l", " ", "S", "o", "u", "r", "c", "e">>, v)
      ELSE IF Contains(kl, <<"n", "o", "t", "e">>) \/ Contains(kl, <<"a", "c", "c", "o", "u", "n", "t">>) THEN AppendNote(out, v)
      ELSE IF Contains(kl, <<"w", "a", "s">>) THEN Put(out, <<"W", "A", "S">>, v)
      ELSE IF Contains(kl, <<"f", "e", "e">>) THEN Put(out, <<"F", "e", "e">>, v)
      ELSE Put(out, k, v)

RECURSIVE NormalizeFrom(_, _, _)
NormalizeFrom(raw, i, out) ==
  IF i > Len(raw) THEN out
  ELSE LET item == NormalizeItem(out, raw[i][1], raw[i][2])
       IN  \* the item is applied before the loop goes on
           IF Len(item) >= 0 THEN NormalizeFrom(raw, i + 1, item) ELSE item

\* _normalize_fields(raw)
NormalizeFields(raw) == NormalizeFrom(raw, 1, <<>>)

(***************************************************************************)
(* State.                                                                  *)
(***************************************************************************)
VARIABLES
  nf_raw,    \* the raw party record handed to _normalize_fields
  nf_out,    \* _normalize_fields(nf_raw)
  nf_out2,   \* _normalize_fields(nf_out)
  nf_pc      \* "idle", "raw", "normalized", "renormalized"

VARIABLES
  in_pc,       \* position in _read_intake_form and its caller
  in_first,    \* row 0 of the table, <<>> for a table without rows
  in_ncols,    \* df.shape[1]
  in_layout,   \* "none", "kv", "wide" (blank cell(0,0)), "wide0" (row 0 is data)
  in_labels,   \* client_labels
  in_anyrow,   \* a data row has been read
  in_label,    \* label of the row being read (wide layout)
  in_col,      \* i, the party column read next
  in_fixed,    \* cells still to read of a row whose cells are already known
  in_cell,     \* the cell read by the last step, None before
  in_raws,     \* raws (wide layout) or <<raw>> (key-value layout)
  in_result,   \* the list _read_intake_form returns
  pg_parsed,   \* st.session_state["parsed_clients"], <<>> when absent
  pg_error,    \* the error the Register Client page shows, "" when none
  pg_selected  \* selected_intake, None or the household record

VARIABLES
  cx_pc,        \* "idle", "ready", "asked"
  cx_haskey,    \* HAS_API_KEY
  cx_files,     \* stems of the *.xlsx files in CLIENTS_DIR
  cx_registry,  \* the list stored in data/registered_clients.json
  sf_seq,       \* MockSalesforce._seq
  sf_records,   \* MockSalesforce._records, in insertion order
  cx_client,    \* <<sel_client>> of the last question to the AI Advisor, <<>> before
  cx_sent       \* <<lines of the context last sent in a system prompt>>, <<>> before

VARIABLES
  rd_pc,        \* position in _fill / _generate_simple_pdf
  rd_file,      \* filename
  rd_template,  \* os.path.exists(path) of the template
  rd_widgets,   \* name and value of each widget of the template, <<>> without one
  rd_fields,    \* fields
  rd_display,   \* display
  rd_idx,       \* number of rows of display already drawn
  rd_y,         \* y
  rd_pages,     \* pages of doc, each a record of title, rows and footer
  rd_result     \* "none", "template", "fallback"

VARIABLES
  mp_pc,        \* "idle", "call", "filling", "filled", "raised"
  mp_form,      \* form_key
  mp_client,    \* client
  mp_co,        \* <<co_client>>, <<>> for None
  mp_fields     \* the fields handed to _fill, <<>> before

VARIABLES
  ob_pc,       \* position in the Fill & Download PDFs handler of the Onboarding page
  ob_sel,      \* new_sel, the form keys checked
  ob_broken,   \* the form keys whose fill_form call raises
  ob_intake,   \* intake, the household record
  ob_co,       \* co_client, <<>> for None
  ob_idx,      \* position of fkey in new_sel
  ob_filled,   \* the local dict filled
  ob_errors,   \* the local list errors, by form key
  ob_pdfs,     \* st.session_state["ob_filled_pdfs"]
  ob_step,     \* st.session_state["ob_step"]
  ob_envelope_sent  \* st.session_state["ob_envelope_sent"]

VARIABLES
  rc_local,    \* per session: the position in a registration and its local values
  rc_done      \* the registrations that have returned: <<client_full, sf_id>>

normVars == <<nf_raw, nf_out, nf_out2, nf_pc>>

intakeVars == <<in_pc, in_first, in_ncols, in_layout, in_labels, in_anyrow, in_label,
                in_col, in_fixed, in_cell, in_raws, in_result, pg_parsed, pg_error,
                pg_selected>>

ctxVars == <<cx_pc, cx_haskey, cx_files, cx_registry, sf_seq, sf_records, cx_client,
             cx_sent>>

renderVars == <<rd_pc, rd_file, rd_template, rd_widgets, rd_fields, rd_display, rd_idx, rd_y,
                rd_pages, rd_result>>

mapVars == <<mp_pc, mp_form, mp_client, mp_co, mp_fields>>

batchVars == <<ob_pc, ob_sel, ob_broken, ob_intake, ob_co, ob_idx, ob_filled, ob_errors,
               ob_pdfs, ob_step, ob_envelope_sent>>

raceVars == <<rc_local, rc_done>>

vars == <<normVars, intakeVars, ctxVars, renderVars, mapVars, batchVars, raceVars>>

\* the variables each component leaves alone
notNorm == <<intakeVars, ctxVars, renderVars, mapVars, batchVars, raceVars>>
notIntake == <<normVars, ctxVars, renderVars, mapVars, batchVars, raceVars>>
notCtx == <<normVars, intakeVars, renderVars, mapVars, batchVars, raceVars>>
notRender == <<normVars, intakeVars, ctxVars, mapVars, batchVars, raceVars>>
notMap == <<normVars, intakeVars, ctxVars, renderVars, batchVars, raceVars>>
notBatch == <<normVars, intakeVars, ctxVars, renderVars, mapVars, raceVars>>
\* the sessions share the contact store and the registry of ctxVars
notRace == <<normVars, intakeVars, renderVars, mapVars, batchVars>>

\* MockSalesforce._seq before the first create_contact
FirstSeq == 1000

\* Python's None
None == "None"

NormIdle ==
  /\ nf_raw = <<>>
  /\ nf_out = <<>>
  /\ nf_out2 = <<>>
  /\ nf_pc = "idle"

IntakeIdle ==
  /\ in_pc = "idle"
  /\ in_first = <<>>
  /\ in_ncols = 0
  /\ in_layout = "none"
  /\ in_labels = <<>>
  /\ in_anyrow = FALSE
  /\ in_label = <<>>
  /\ in_col = 0
  /\ in_fixed = <<>>
  /\ in_cell = None
  /\ in_raws = <<>>
  /\ in_result = <<>>
  /\ pg_parsed = <<>>
  /\ pg_error = ""
  /\ pg_selected = None

CtxIdle ==
  /\ cx_pc = "idle"
  /\ cx_haskey = FALSE
  /\ cx_files = {}
  /\ cx_registry = <<>>
  /\ sf_seq = FirstSeq
  /\ sf_records = <<>>
  /\ cx_client = <<>>
  /\ cx_sent = <<>>

RenderIdle ==
  /\ rd_pc = "idle"
  /\ rd_file = <<>>
  /\ rd_template = FALSE
  /\ rd_widgets = <<>>
  /\ rd_fields = <<>>
  /\ rd_display = <<>>
  /\ rd_idx = 0
  /\ rd_y = 0
  /\ rd_pages = <<>>
  /\ rd_result = "none"

BatchIdle ==
  /\ ob_pc = "idle"
  /\ ob_sel = <<>>
  /\ ob_broken = {}
  /\ ob_intake = <<>>
  /\ ob_co = <<>>
  /\ ob_idx = 0
  /\ ob_filled = <<>>
  /\ ob_errors = <<>>
  /\ ob_pdfs = <<>>
  /\ ob_step = 0
  /\ ob_envelope_sent = FALSE

\* the browser sessions that register clients at the same time
Sessions == {1, 2}

\* a session that is not registering
IdleLocal == [pc |-> "idle", intake |-> <<>>, seq |-> 0, tmp |-> 0, record |-> <<>>,
              loaded |-> <<>>]

RaceIdle ==
  /\ rc_local = [s \in Sessions |-> IdleLocal]
  /\ rc_done = <<>>

MapIdle ==
  /\ mp_pc = "idle"
  /\ mp_form = <<>>
  /\ mp_client = <<>>
  /\ mp_co = <<>>
  /\ mp_fields = <<>>

(***************************************************************************)
(* The normaliser applied to a raw record, and again to its own output.    *)
(***************************************************************************)
\* the longest raw record with several labels
MaxRaw == 2

\* labels whose rules interact (shared canonical keys, overlapping predicates)
CoreLabels ==
  { <<"F", "u", "l", "l", " ", "N", "a", "m", "e">>, <<"F", "i", "r", "s", "t", " ", "N", "a", "m", "e">>, <<"D", "O", "B">>, <<" ", "D", "a", "t", "e", " ", "o", "f", " ", "B", "i", "r", "t", "h", " ">>,
    <<"I", "n", "v", "e", "s", "t", "m", "e", "n", "t", " ", "O", "b", "j", "e", "c", "t", "i", "v", "e">>, <<"R", "i", "s", "k", " ", "T", "o", "l", "e", "r", "a", "n", "c", "e">>, <<"R", "i", "s", "k", " ", "T", "o", "l", "e", "r", "a", "n", "c", "e", " ", "O", "b", "j", "e", "c", "t", "i", "v", "e">>,
    <<"N", "o", "t", "e", "s">>, <<"A", "c", "c", "o", "u", "n", "t", " ", "T", "y", "p", "e">>, <<"A", "d", "v", "i", "s", "o", "r">>, <<"R", "e", "f", "e", "r", "r", "a", "l", " ", "S", "o", "u", "r", "c", "e">>,
    <<"S", "S", "N">>, <<"W", "A", "S">>, <<"F", "e", "e">> }

\* labels of the remaining rules, each tried alone
SingleLabels ==
  { <<"L", "a", "s", "t", " ", "N", "a", "m", "e">>, <<"b", "i", "r", "t", "h", " ", "d", "a", "t", "e">>, <<"A", "d", "d", "r", "e", "s", "s">>, <<"C", "i", "t", "y">>, <<"S", "t", "a", "t", "e">>, <<"Z", "i", "p", " ", "C", "o", "d", "e">>,
    <<"P", "h", "o", "n", "e">>, <<"E", "m", "a", "i", "l">>, <<"A", "n", "n", "u", "a", "l", " ", "I", "n", "c", "o", "m", "e">>, <<"N", "e", "t", " ", "W", "o", "r", "t", "h">>, <<"L", "i", "q", "u", "i", "d", " ", "A", "s", "s", "e", "t", "s">>,
    <<"E", "m", "p", "l", "o", "y", "e", "r">>, <<"J", "o", "b", " ", "T", "i", "t", "l", "e">>, <<"T", "i", "m", "e", " ", "H", "o", "r", "i", "z", "o", "n">>, <<"B", "e", "n", "e", "f", "i", "c", "i", "a", "r", "y", " ", "1", " ", "N", "a", "m", "e">> }

\* cell texts of the records with several labels
CellTexts == { <<>>, <<"A", "n", "n", " ", "B", " ", "L", "e", "e">>, <<" ", "1", "9", "9", "0", "-", "0", "1", "-", "0", "2", " ", "1", "0", ":", "0", "0", " ">> }

\* cell texts of the records with one label
SingleTexts ==
  CellTexts \cup { <<"H", "i", "g", "h">>, <<"M", "a", "d", "o", "n", "n", "a">>, <<"R", "o", "b", "e", "r", "t", " ", "T", "h", "o", "r", "n", "t", "o", "n">>, <<"A", "n", "n", " ", "B", "e", "t", "h", " ", "L", "e", "e">>, <<"A", "n", "n", " ", "B", " ", "C", " ", "L", "e", "e">> }

DistinctKeys(d) == \A i, j \in 1..Len(d) : d[i][1] = d[j][1] => i = j

\* labels spelled as a canonical key that a rule of another label writes
PassthroughKeyLabels == { <<"M", "i", "d", "d", "l", "e", " ", "I", "n", "i", "t", "i", "a", "l">>, <<"I", "n", "v", "e", "s", "t", "m", "e", "n", "t", " ", "G", "o", "a", "l">> }

\* a label spelled as a canonical key beside a label whose rule writes canonical
\* keys, in either order
CollidingRecords ==
  UNION { { << <<p, <<"Q">>>>, <<l, w>> >>, << <<l, w>>, <<p, <<"Q">>>> >> } :
            p \in PassthroughKeyLabels,
            l \in { <<"F", "u", "l", "l", " ", "N", "a", "m", "e">>, <<"I", "n", "v", "e", "s", "t", "m", "e", "n", "t", " ", "O", "b", "j", "e", "c", "t", "i", "v", "e">> },
            w \in CellTexts }

RawRecords ==
  {r \in UNION {[1..n -> CoreLabels \X CellTexts] : n \in 0..MaxRaw} : DistinctKeys(r)}
  \cup {<<<<l, v>>>> : l \in CoreLabels \cup SingleLabels, v \in SingleTexts}
  \cup CollidingRecords

NormInit ==
  /\ nf_raw \in RawRecords
  /\ nf_out = <<>>
  /\ nf_out2 = <<>>
  /\ nf_pc = "raw"
  /\ IntakeIdle
  /\ CtxIdle
  /\ RenderIdle
  /\ MapIdle
  /\ BatchIdle
  /\ RaceIdle

NormalizeRaw ==
  /\ nf_pc = "raw"
  /\ nf_out' = NormalizeFields(nf_raw)
  /\ nf_pc' = "normalized"
  /\ UNCHANGED <<nf_raw, nf_out2, notNorm>>

NormalizeAgain ==
  /\ nf_pc = "normalized"
  /\ nf_out2' = NormalizeFields(nf_out)
  /\ nf_pc' = "renormalized"
  /\ UNCHANGED <<nf_raw, nf_out, notNorm>>

NormNext == NormalizeRaw \/ NormalizeAgain

SpecNorm == NormInit /\ [][NormNext]_vars

\* the positions of nf_raw whose label the risk-tolerance rule's predicate holds of
RiskLabelsOfRaw == {i \in 1..Len(nf_raw) : IsRiskToleranceLabel(Lower(Strip(nf_raw[i][1])))}

\* the positions of nf_raw whose label the objective rule's predicate holds of
ObjectiveLabelsOfRaw == {i \in 1..Len(nf_raw) : IsObjectiveLabel(Lower(Strip(nf_raw[i][1])))}

\* C6: a label that contains "risk" and "tolerance" and also matches the
\* objective rule is classified by the risk-tolerance rule: a record whose only
\* objective-matching labels are such labels gets no Investment Goal, and its
\* Risk Tolerance is the value of the last such label.
C6_RiskRuleFirst ==
  (/\ nf_pc # "raw"
   /\ RiskLabelsOfRaw # {}
   /\ ObjectiveLabelsOfRaw \subseteq RiskLabelsOfRaw)
  => LET last == CHOOSE i \in RiskLabelsOfRaw : \A j \in RiskLabelsOfRaw : j <= i
     IN  /\ ~Has(nf_out, <<"I", "n", "v", "e", "s", "t", "m", "e", "n", "t", " ", "G", "o", "a", "l">>)
         /\ Get(nf_out, <<"R", "i", "s", "k", " ", "T", "o", "l", "e", "r", "a", "n", "c", "e">>, <<>>) = Strip(nf_raw[last][2])

\* C10: normalising the normaliser's output gives the same record again.
C10_Idempotent ==
  nf_pc = "renormalized" => DictEq(nf_out2, nf_out)

\* a second pass has run over a record holding split-name keys, a defaulted
\* Risk Tolerance and a passthrough key
C10_Witness ==
  /\ nf_pc = "renormalized"
  /\ Has(nf_out, <<"M", "i", "d", "d", "l", "e", " ", "I", "n", "i", "t", "i", "a", "l">>)
  /\ Has(nf_out, <<"I", "n", "v", "e", "s", "t", "m", "e", "n", "t", " ", "G", "o", "a", "l">>)
  /\ nf_out2 # <<>>

(***************************************************************************)
(* The intake reader, app.py _read_intake_form, read row by row and cell   *)
(* by cell, and the Register Client page that calls it and composes the    *)
(* household record.                                                       *)
(***************************************************************************)
\* the most party columns of a table
MaxParties == 3

\* str(i) for a natural number
RECURSIVE Str(_)
Str(i) ==
  LET d == <<"0", "1", "2", "3", "4", "5", "6", "7", "8", "9">>[(i % 10) + 1]
  IN  IF i < 10 THEN <<d>> ELSE Append(Str(i \div 10), d)

\* the test of a cell or label that is treated as missing: "", "nan", "none"
IsMissing(v) == v = <<>> \/ Lower(v) \in {<<"n", "a", "n">>, <<"n", "o", "n", "e">>}

\* the body of the loop over the cells of a row: party i (from 0), cell text
WideCellStepOverwrite(raws, i, label, cell) ==
  LET v == Strip(cell)
  IN  IF ~IsMissing(v)
      THEN [raws EXCEPT ![i + 1] = Put(@, label, v)]
      ELSE IF i > 0 /\ Has(raws[1], label)
      THEN [raws EXCEPT ![i + 1] = Put(@, label, Get(raws[1], label, <<>>))]
      ELSE raws

WideCellStepNoStrip(raws, i, label, cell) ==
  LET v == Strip(cell)
  IN  IF ~IsMissing(v)
      THEN [raws EXCEPT ![i + 1] = Put(@, label, cell)]
      ELSE IF i > 0 /\ ~Has(raws[i + 1], label) /\ Has(raws[1], label)
      THEN [raws EXCEPT ![i + 1] = Put(@, label, Get(raws[1], label, <<>>))]
      ELSE raws

WideCellStep(raws, i, label, cell) ==
  LET v == Strip(cell)
  IN  IF ~IsMissing(v)
      THEN [raws EXCEPT ![i + 1] = Put(@, label, v)]
      ELSE IF i > 0 /\ ~Has(raws[i + 1], label) /\ Has(raws[1], label)
      THEN [raws EXCEPT ![i + 1] = Put(@, label, Get(raws[1], label, <<>>))]
      ELSE raws

\* the list built from raws: the non-empty ones, normalised and labelled
RECURSIVE WideResultFrom(_, _, _)
WideResultFrom(raws, labels, i) ==
  IF i > Len(raws) THEN <<>>
  ELSE IF raws[i] # <<>>
  THEN <<Put(NormalizeFields(raws[i]), <<"_", "_", "c", "l", "i", "e", "n", "t", "_", "l", "a", "b", "e", "l", "_", "_">>,
             IF i <= Len(labels) THEN labels[i] ELSE <<"C", "l", "i", "e", "n", "t", " ">> \o Str(i))>>
       \o WideResultFrom(raws, labels, i + 1)
  ELSE WideResultFrom(raws, labels, i + 1)

WideResult(raws, labels) == WideResultFrom(raws, labels, 1)

\* _full_name
FullName(c) ==
  LET parts == << Get(c, <<"F", "i", "r", "s", "t", " ", "N", "a", "m", "e">>, <<>>), Get(c, <<"M", "i", "d", "d", "l", "e", " ", "I", "n", "i", "t", "i", "a", "l">>, <<>>),
                  Get(c, <<"L", "a", "s", "t", " ", "N", "a", "m", "e">>, <<>>) >>
  IN  Strip(Join(SelectSeq(parts, LAMBDA p : p # <<>>), <<" ">>))

\* the loop over children of the Register Client page, idx from 1
RECURSIVE AddChildren(_, _, _)
AddChildren(holder, children, idx) ==
  IF idx > Len(children) THEN holder
  ELSE AddChildren(
         Put(Put(holder, <<"C", "h", "i", "l", "d", " ">> \o Str(idx) \o <<" ", "N", "a", "m", "e">>, FullName(children[idx])),
             <<"C", "h", "i", "l", "d", " ">> \o Str(idx) \o <<" ", "D", "O", "B">>,
             Get(children[idx], <<"D", "a", "t", "e", " ", "o", "f", " ", "B", "i", "r", "t", "h">>, <<>>)),
         children, idx + 1)

ComposeHouseholdFromOne(parsed) ==
  IF Len(parsed) >= 2
  THEN LET holder1 == Put(Put(parsed[1], <<"C", "o", "-", "A", "c", "c", "o", "u", "n", "t", " ", "H", "o", "l", "d", "e", "r", " ", "N", "a", "m", "e">>, FullName(parsed[2])),
                          <<"C", "o", "-", "A", "c", "c", "o", "u", "n", "t", " ", "H", "o", "l", "d", "e", "r", " ", "D", "O", "B">>,
                          Get(parsed[2], <<"D", "a", "t", "e", " ", "o", "f", " ", "B", "i", "r", "t", "h">>, <<>>))
       IN  AddChildren(holder1, SubSeq(parsed, 2, Len(parsed)), 1)
  ELSE IF Len(parsed) = 1 THEN parsed[1]
  ELSE None

\* selected_intake of the Register Client page
ComposeHousehold(parsed) ==
  IF Len(parsed) >= 2
  THEN LET holder1 == Put(Put(parsed[1], <<"C", "o", "-", "A", "c", "c", "o", "u", "n", "t", " ", "H", "o", "l", "d", "e", "r", " ", "N", "a", "m", "e">>, FullName(parsed[2])),
                          <<"C", "o", "-", "A", "c", "c", "o", "u", "n", "t", " ", "H", "o", "l", "d", "e", "r", " ", "D", "O", "B">>,
                          Get(parsed[2], <<"D", "a", "t", "e", " ", "o", "f", " ", "B", "i", "r", "t", "h">>, <<>>))
       IN  AddChildren(holder1, SubSeq(parsed, 3, Len(parsed)), 1)
  ELSE IF Len(parsed) = 1 THEN parsed[1]
  ELSE None

\* texts of the cells of row 0: cell(0,0), the pairs cell(0,0), cell(0,1), and
\* the text of every later cell of row 0
FirstCells == { <<>>, <<" ", "F", "I", "E", "L", "D", " ">>, <<"F", "u", "l", "l", " ", "N", "a", "m", "e">>, <<"N", "o", "n", "e">> }
HeadPairs ==
  { <<<<" ", "F", "I", "E", "L", "D", " ">>, <<"V", "a", "l", "u", "e">>>>, <<<<" ", "F", "I", "E", "L", "D", " ">>, <<"A", "n", "n", " ", "L", "e", "e">>>>, <<<<"f", "i", "e", "l", "d">>, <<" ", "V", "A", "L", "U", "E", " ">>>>,
    <<<<>>, <<"A", "n", "n", " ", "L", "e", "e">>>>, <<<<"N", "o", "n", "e">>, <<"A", "n", "n", " ", "L", "e", "e">>>>,
    <<<<"F", "u", "l", "l", " ", "N", "a", "m", "e">>, <<"A", "n", "n", " ", "L", "e", "e">>>>, <<<<" ", "D", "O", "B", " ">>, <<>>>> }
OtherHeadCell == <<"C", "a", "r", "a", " ", "L", "e", "e">>

FirstRows ==
  {<<>>} \cup {<<c>> : c \in FirstCells}
  \cup UNION {{h \o [j \in 1..(n - 1) |-> OtherHeadCell] : h \in HeadPairs} :
               n \in 1..MaxParties}

\* texts of the cells of the later rows
KvLabelCells == { <<>>, <<"N", "a", "N">>, <<"F", "i", "e", "l", "d">>, <<"F", "u", "l", "l", " ", "N", "a", "m", "e">>, <<" ", "D", "O", "B", " ">> }
KvValueCells == { <<>>, <<"n", "a", "n">>, <<" ", "A", "n", "n", " ", "L", "e", "e", " ">> }
WideLabelCells == { <<>>, <<"n", "o", "n", "e">>, <<"F", "u", "l", "l", " ", "N", "a", "m", "e">>, <<" ", "D", "O", "B", " ">> }
\* texts of the cells of a row of the wide layout: a date-of-birth row holds dates
WideCells(label) ==
  IF Contains(Lower(label), <<"d", "o", "b">>)
  THEN { <<>>, <<"1", "9", "9", "0", "-", "0", "1", "-", "0", "2", " ", "1", "0", ":", "0", "0">> }
  ELSE { <<>>, <<"N", "o", "n", "e">>, <<"A", "n", "n", " ", "L", "e", "e">>, <<" ", "B", "o", "b", " ", "R", "a", "y", " ">> }

IntakeInit ==
  /\ in_pc = "detect"
  /\ in_first \in FirstRows
  /\ in_ncols = Len(in_first)
  /\ in_layout = "none"
  /\ in_labels = <<>>
  /\ in_anyrow = FALSE
  /\ in_label = <<>>
  /\ in_col = 0
  /\ in_fixed = <<>>
  /\ in_cell = None
  /\ in_raws = <<>>
  /\ in_result = <<>>
  /\ pg_parsed = <<>>
  /\ pg_error = ""
  /\ pg_selected = None
  /\ NormIdle
  /\ CtxIdle
  /\ RenderIdle
  /\ MapIdle
  /\ BatchIdle
  /\ RaceIdle

\* df.iloc[0] of a table without rows raises IndexError
ReadEmptyTable ==
  /\ in_pc = "detect"
  /\ in_first = <<>>
  /\ in_pc' = "raised"
  /\ UNCHANGED <<in_first, in_ncols, in_layout, in_labels, in_anyrow, in_label, in_col,
                 in_fixed, in_cell, in_raws, in_result, pg_parsed, pg_error, pg_selected>>
  /\ UNCHANGED notIntake

\* the layout the first row selects when cell(0,1) is not looked at
LayoutOfFieldOnly(first) ==
  LET first_row == [j \in 1..Len(first) |-> Strip(first[j])]
      col0 == Lower(first_row[1])
  IN  IF col0 = <<"f", "i", "e", "l", "d">> THEN "kv"
      ELSE IF col0 \in {<<>>, <<"n", "a", "n">>, <<"n", "o", "n", "e">>} THEN "wide"
      ELSE "wide0"

\* the layout the first row selects
LayoutOf(first) ==
  LET first_row == [j \in 1..Len(first) |-> Strip(first[j])]
      col0 == Lower(first_row[1])
      col1 == IF Len(first_row) > 1 THEN Lower(first_row[2]) ELSE <<>>
  IN  IF col0 = <<"f", "i", "e", "l", "d">> /\ col1 = <<"v", "a", "l", "u", "e">> THEN "kv"
      ELSE IF col0 \in {<<>>, <<"n", "a", "n">>, <<"n", "o", "n", "e">>} THEN "wide"
      ELSE "wide0"

DetectKeyValue ==
  /\ in_pc = "detect"
  /\ in_first # <<>>
  /\ LayoutOf(in_first) = "kv"
  /\ in_layout' = "kv"
  /\ in_raws' = << <<>> >>
  /\ in_pc' = "kvrows"
  /\ in_first' = <<>>
  /\ UNCHANGED <<in_ncols, in_labels, in_anyrow, in_label, in_col, in_fixed, in_cell,
                 in_result, pg_parsed, pg_error, pg_selected>>
  /\ UNCHANGED notIntake

DetectWideHeader ==
  /\ in_pc = "detect"
  /\ in_first # <<>>
  /\ LayoutOf(in_first) = "wide"
  /\ in_layout' = "wide"
  /\ in_labels' = [j \in 1..(Len(in_first) - 1) |-> Strip(in_first[j + 1])]
  /\ in_raws' = [j \in 1..(Len(in_first) - 1) |-> <<>>]
  /\ in_pc' = "rows"
  /\ in_first' = <<>>
  /\ UNCHANGED <<in_ncols, in_anyrow, in_label, in_col, in_fixed, in_cell,
                 in_result, pg_parsed, pg_error, pg_selected>>
  /\ UNCHANGED notIntake

\* without a header row, row 0 is the first data row: its label is never missing
DetectWideNoHeader ==
  /\ in_pc = "detect"
  /\ in_first # <<>>
  /\ LayoutOf(in_first) = "wide0"
  /\ in_layout' = "wide0"
  /\ in_labels' = [j \in 1..(in_ncols - 1) |-> <<"C", "l", "i", "e", "n", "t", " ">> \o Str(j)]
  /\ in_raws' = [j \in 1..(in_ncols - 1) |-> <<>>]
  /\ in_anyrow' = TRUE
  /\ in_label' = Strip(in_first[1])
  /\ in_col' = 0
  /\ in_fixed' = Tail(in_first)
  /\ in_pc' = IF in_ncols - 1 = 0 THEN "rows" ELSE "cells"
  /\ in_first' = <<>>
  /\ UNCHANGED <<in_ncols, in_cell, in_result, pg_parsed, pg_error, pg_selected>>
  /\ UNCHANGED notIntake

\* one row of the key-value layout, a missing value skipping the row as in the
\* wide layout
KvRowSkipMissing ==
  /\ in_pc = "kvrows"
  /\ \E lc \in KvLabelCells, vc \in KvValueCells :
       LET label == Strip(lc)
           val   == Strip(vc)
       IN  /\ in_label' = lc
           /\ in_cell' = vc
           /\ in_raws' = IF /\ label # <<>>
                            /\ Lower(label) \notin {<<"n", "a", "n">>, <<"n", "o", "n", "e">>, <<"f", "i", "e", "l", "d">>}
                            /\ ~IsMissing(val)
                         THEN <<Put(in_raws[1], label, val)>>
                         ELSE in_raws
  /\ in_anyrow' = TRUE
  /\ UNCHANGED <<in_pc, in_first, in_ncols, in_layout, in_labels, in_col, in_fixed,
                 in_result, pg_parsed, pg_error, pg_selected>>
  /\ UNCHANGED notIntake

\* one row of the key-value layout
KvRow ==
  /\ in_pc = "kvrows"
  /\ \E lc \in KvLabelCells, vc \in KvValueCells :
       LET label == Strip(lc)
           val   == Strip(vc)
       IN  /\ in_label' = lc
           /\ in_cell' = vc
           /\ in_raws' = IF label # <<>> /\ Lower(label) \notin {<<"n", "a", "n">>, <<"n", "o", "n", "e">>, <<"f", "i", "e", "l", "d">>}
                         THEN <<Put(in_raws[1], label, val)>>
                         ELSE in_raws
  /\ in_anyrow' = TRUE
  /\ UNCHANGED <<in_pc, in_first, in_ncols, in_layout, in_labels, in_col, in_fixed,
                 in_result, pg_parsed, pg_error, pg_selected>>
  /\ UNCHANGED notIntake

KvReturn ==
  /\ in_pc = "kvrows"
  /\ in_result' = <<NormalizeFields(in_raws[1])>>
  /\ in_pc' = "returned"
  /\ UNCHANGED <<in_first, in_ncols, in_layout, in_labels, in_anyrow, in_label, in_col,
                 in_fixed, in_cell, in_raws, pg_parsed, pg_error, pg_selected>>
  /\ UNCHANGED notIntake

\* the start of one row of the wide layout: a missing label skips the row
WideRow ==
  /\ in_pc = "rows"
  /\ in_layout \in {"wide", "wide0"}
  /\ \E lc \in WideLabelCells :
       LET label == Strip(lc)
       IN  IF IsMissing(label) \/ Len(in_raws) = 0
           THEN UNCHANGED <<in_pc, in_col, in_label>>
           ELSE /\ in_label' = label
                /\ in_col' = 0
                /\ in_pc' = "cells"
  /\ in_anyrow' = TRUE
  /\ UNCHANGED <<in_first, in_ncols, in_layout, in_labels, in_fixed, in_cell, in_raws,
                 in_result, pg_parsed, pg_error, pg_selected>>
  /\ UNCHANGED notIntake

\* the next cell of the row is read: row.iloc[1:][in_col]
WideReadCell ==
  /\ in_pc = "cells"
  /\ in_col < Len(in_raws)
  /\ \E cell \in (IF in_fixed # <<>> THEN {Head(in_fixed)} ELSE WideCells(in_label)) :
       in_cell' = cell
  /\ in_fixed' = IF in_fixed # <<>> THEN Tail(in_fixed) ELSE <<>>
  /\ in_pc' = "cell"
  /\ UNCHANGED <<in_first, in_ncols, in_layout, in_labels, in_anyrow, in_label, in_col,
                 in_raws, in_result, pg_parsed, pg_error, pg_selected>>
  /\ UNCHANGED notIntake

\* the cell read is recorded, carried forward from party 0, or left out
WideCell ==
  /\ in_pc = "cell"
  /\ in_raws' = WideCellStep(in_raws, in_col, in_label, in_cell)
  /\ in_cell' = None
  /\ in_col' = in_col + 1
  /\ in_pc' = IF in_col + 1 = Len(in_raws) THEN "rows" ELSE "cells"
  /\ in_label' = IF in_col + 1 = Len(in_raws) THEN <<>> ELSE in_label
  /\ UNCHANGED <<in_first, in_ncols, in_layout, in_labels, in_anyrow, in_fixed,
                 in_result, pg_parsed, pg_error, pg_selected>>
  /\ UNCHANGED notIntake

WideReturn ==
  /\ in_pc = "rows"
  /\ in_layout \in {"wide", "wide0"}
  /\ in_result' = WideResult(in_raws, in_labels)
  /\ in_pc' = "returned"
  /\ UNCHANGED <<in_first, in_ncols, in_layout, in_labels, in_anyrow, in_label, in_col,
                 in_fixed, in_cell, in_raws, pg_parsed, pg_error, pg_selected>>
  /\ UNCHANGED notIntake

\* the Register Client page: the call of _read_intake_form and the composition
RegisterPage ==
  /\ in_pc \in {"returned", "raised"}
  /\ in_pc' = "page"
  /\ pg_error' = IF in_pc = "raised" THEN "Failed to read file"
                 ELSE IF in_result = <<>>
                 THEN "Could not parse intake form - no data rows found."
                 ELSE ""
  /\ pg_parsed' = IF in_pc = "returned" THEN in_result ELSE <<>>
  /\ pg_selected' = ComposeHousehold(pg_parsed')
  /\ UNCHANGED <<in_first, in_ncols, in_layout, in_labels, in_anyrow, in_label, in_col,
                 in_fixed, in_cell, in_raws, in_result>>
  /\ UNCHANGED notIntake

IntakeNext ==
  \/ ReadEmptyTable
  \/ DetectKeyValue
  \/ DetectWideHeader
  \/ DetectWideNoHeader
  \/ KvRow
  \/ KvReturn
  \/ WideRow
  \/ WideReadCell
  \/ WideCell
  \/ WideReturn
  \/ RegisterPage

SpecIntake == IntakeInit /\ [][IntakeNext]_vars


\* C1: a table with fewer than 2 columns, or with no row after the header,
\* makes _read_intake_form fail: it never returns a list.
C1_FormatError ==
  (in_ncols < 2 \/ ~in_anyrow) => in_pc \notin {"returned", "page"}

\* the party whose cell the step processes
CellParty == in_col + 1

\* C7 as stated: a value of party 0 is copied into party i only when the cell is
\* empty, the label is in party 0's map and not in party i's, and no value
\* already recorded for party i is overwritten by a copy.
C7_CarryOnlyEmptyCell ==
  [][in_pc = "cell" =>
       LET old == in_raws[CellParty]
           new == in_raws'[CellParty]
           v   == Strip(in_cell)
       IN  (new # old /\ Get(new, in_label, <<>>) # v)
           => /\ v = <<>>
              /\ in_col > 0
              /\ Has(in_raws[1], in_label)
              /\ ~Has(old, in_label)
              /\ new = Append(old, <<in_label, Get(in_raws[1], in_label, <<>>)>>)]_vars

\* C7 amended: a value of party 0 is copied into party i only when the cell is
\* empty or holds "nan" or "none" (any case), the label is in party 0's map and
\* not in party i's; a cell step changes no other party's map and a copy never
\* overwrites a value already recorded for party i.
C7_CarryForward ==
  [][in_pc = "cell" =>
       LET old == in_raws[CellParty]
           new == in_raws'[CellParty]
           v   == Strip(in_cell)
       IN  /\ \A q \in 1..Len(in_raws) : q # CellParty => in_raws'[q] = in_raws[q]
           /\ Len(in_raws') = Len(in_raws)
           /\ IsMissing(v) =>
                /\ \A k \in Keys(old) : Has(new, k) /\ Get(new, k, <<>>) = Get(old, k, <<>>)
                /\ new # old =>
                     /\ in_col > 0
                     /\ Has(in_raws[1], in_label)
                     /\ ~Has(old, in_label)
                     /\ new = Append(old, <<in_label, Get(in_raws[1], in_label, <<>>)>>)]_vars

\* a carry-forward has happened: party 2 holds party 1's value under a label for
\* which party 2's own cell was missing, after a row that repeated the label
C7_Witness ==
  /\ in_pc = "cell"
  /\ in_col = 1
  /\ IsMissing(Strip(in_cell))
  /\ Has(in_raws[2], in_label)
  /\ Has(in_raws[1], in_label)
  /\ Get(in_raws[2], in_label, <<>>) # Get(in_raws[1], in_label, <<>>)

\* C8 as stated: every cell whose trimmed text is non-empty and not "nan" (any
\* case) is recorded under the row label in its party's map.
C8_RecordedUnlessNan ==
  [][in_pc = "cell" =>
       LET v == Strip(in_cell)
       IN  (v # <<>> /\ Lower(v) # <<"n", "a", "n">>)
           => in_raws'[CellParty] = Put(in_raws[CellParty], in_label, v)]_vars

\* C8 amended: every cell whose trimmed text is non-empty and neither "nan" nor
\* "none" (any case) is recorded, trimmed, under the row label in its party's
\* map; a recorded value changes only by such a direct record for the same party
\* and label, never by a carried-forward value.
C8_RecordedDirectly ==
  [][/\ in_pc = "cell" =>
          LET v == Strip(in_cell)
          IN  ~IsMissing(v)
              => in_raws'[CellParty] = Put(in_raws[CellParty], in_label, v)
     /\ \A q \in 1..Len(in_raws) : \A k \in Keys(in_raws[q]) :
          (in_layout # "kv" /\ Len(in_raws') = Len(in_raws) /\ Get(in_raws'[q], k, <<>>) # Get(in_raws[q], k, <<>>))
          => /\ in_pc = "cell"
             /\ q = CellParty
             /\ k = in_label
             /\ ~IsMissing(Strip(in_cell))
             /\ Get(in_raws'[q], k, <<>>) = Strip(in_cell)]_vars

\* a padded cell has been read for a party that already holds another value
\* under the label
C8_Witness ==
  /\ in_pc = "cell"
  /\ in_col > 0
  /\ in_cell = <<" ", "B", "o", "b", " ", "R", "a", "y", " ">>
  /\ Has(in_raws[CellParty], in_label)
  /\ Get(in_raws[CellParty], in_label, <<>>) # Strip(in_cell)

\* the party columns whose raw map is not empty, in column order
RECURSIVE SurvivorsFrom(_, _)
SurvivorsFrom(raws, i) ==
  IF i > Len(raws) THEN <<>>
  ELSE (IF raws[i] # <<>> THEN <<i>> ELSE <<>>) \o SurvivorsFrom(raws, i + 1)

ChildNameKey(idx) == <<"C", "h", "i", "l", "d", " ">> \o Str(idx) \o <<" ", "N", "a", "m", "e">>
ChildDobKey(idx) == <<"C", "h", "i", "l", "d", " ">> \o Str(idx) \o <<" ", "D", "O", "B">>

\* stands for a key that is not in a record
NoValue == <<"<no value>">>

MaxContacts == 2

\* width of the sequence number inside a Salesforce id
SeqWidth == 13

Digits == <<"0", "1", "2", "3", "4", "5", "6", "7", "8", "9">>

UpperChar(c) ==
  IF \E i \in 1..26 : LowerChars[i] = c
  THEN UpperChars[CHOOSE i \in 1..26 : LowerChars[i] = c]
  ELSE c

IsLetter(c) == \E i \in 1..26 : LowerChars[i] = c \/ UpperChars[i] = c

IsDigit(c) == \E i \in 1..10 : Digits[i] = c

\* f"{n:0{w}d}"
RECURSIVE ZeroPad(_, _)
ZeroPad(s, w) == IF Len(s) >= w THEN s ELSE ZeroPad(<<"0">> \o s, w)

\* s.title()
Title(s) ==
  [i \in 1..Len(s) |->
     IF i = 1 \/ ~IsLetter(s[i - 1]) THEN UpperChar(s[i]) ELSE LowerChar(s[i])]

\* s.replace(a, b) for single characters a and b
ReplaceChar(s, a, b) == [i \in 1..Len(s) |-> IF s[i] = a THEN b ELSE s[i]]

\* s.strip("_")
RECURSIVE StripUnderscores(_)
StripUnderscores(s) ==
  IF s = <<>> THEN s
  ELSE IF Head(s) = "_" THEN StripUnderscores(Tail(s))
  ELSE IF s[Len(s)] = "_" THEN StripUnderscores(SubSeq(s, 1, Len(s) - 1))
  ELSE s

\* \w of the regular expression
IsWordChar(c) == IsLetter(c) \/ IsDigit(c) \/ c = "_"

\* re.sub(r"[^\w]+", "_", s)
RECURSIVE SubNonWord(_, _)
SubNonWord(s, inrun) ==
  IF s = <<>> THEN <<>>
  ELSE IF IsWordChar(Head(s)) THEN <<Head(s)>> \o SubNonWord(Tail(s), FALSE)
  ELSE IF inrun THEN SubNonWord(Tail(s), TRUE)
  ELSE <<"_">> \o SubNonWord(Tail(s), TRUE)

\* the stem of slug in find_client_file
SlugStem(client_name) == StripUnderscores(SubNonWord(Lower(client_name), FALSE))

\* parts in find_client_file
NameParts(client_name) ==
  Split(SelectSeq(Lower(client_name),
                  LAMBDA c : c = " " \/ IsDigit(c) \/ \E i \in 1..26 : LowerChars[i] = c))

\* the stems find_client_file can return for client_name, {} when not found
FindClientFile(files, client_name) ==
  IF SlugStem(client_name) \in files THEN {SlugStem(client_name)}
  ELSE {f \in files : \A i \in 1..Len(NameParts(client_name)) :
                         Contains(f, NameParts(client_name)[i])}

\* the sheets of a client file, as read by read_excel_sheet
SheetsOf(stem) ==
  << << <<"E", "m", "p", "t", "y">>, <<>> >>,
     << <<"A", "c", "c", "o", "u", "n", "t", "s">>, << << <<<<"F", "i", "l", "e">>, stem>>, <<<<"V", "a", "l", "u", "e">>, <<"1", "0", "0">>>> >>,
                        << <<<<"F", "i", "l", "e">>, stem>>, <<<<"V", "a", "l", "u", "e">>, <<>> >> >> >> >> >>

\* _available_excel_clients(), as a set
AvailableExcelClients(files) == {Title(ReplaceChar(f, "_", " ")) : f \in files}

\* _registry_names(), as a set
RegistryNames(registry) == {registry[i].name : i \in 1..Len(registry)}

\* _all_known_clients(), as a set
AllKnownClients(registry, files) ==
  RegistryNames(registry) \cup
    {n \in AvailableExcelClients(files) :
       \A m \in RegistryNames(registry) : Lower(m) # Lower(n)}

\* _client_has_excel(name)
ClientHasExcel(files, name) ==
  \E n \in AvailableExcelClients(files) : Lower(n) = Lower(name)

\* _registry_entry(name) is not None
HasRegistryEntry(registry, name) ==
  \E i \in 1..Len(registry) : Lower(registry[i].name) = Lower(name)

\* _registry_entry(name), when it is not None
RegistryEntry(registry, name) ==
  registry[CHOOSE i \in 1..Len(registry) :
             /\ Lower(registry[i].name) = Lower(name)
             /\ \A j \in 1..(i - 1) : Lower(registry[j].name) # Lower(name)]

\* _save_to_registry replacing only the entry of exactly the same name
SaveToRegistryExact(registry, name, sf_id, now, intake, sf_record) ==
  Append(SelectSeq(registry, LAMBDA r : r.name # name),
         [name |-> name, sf_id |-> sf_id, registered_at |-> now,
          intake |-> SelectSeq(intake, LAMBDA kv : ~StartsWith(kv[1], <<"_", "_">>)),
          sf_record |-> sf_record])

\* _save_to_registry(name, sf_id, intake, sf_record)
SaveToRegistry(registry, name, sf_id, now, intake, sf_record) ==
  Append(SelectSeq(registry, LAMBDA r : Lower(r.name) # Lower(name)),
         [name |-> name, sf_id |-> sf_id, registered_at |-> now,
          intake |-> SelectSeq(intake, LAMBDA kv : ~StartsWith(kv[1], <<"_", "_">>)),
          sf_record |-> sf_record])

\* the beneficiary entries of bene_parts when the loop stops after "1"
BeneficiaryPartsFirstOnly(intake, i) ==
  IF i > 1 THEN <<>>
  ELSE LET name == Get(intake, <<"B", "e", "n", "e", "f", "i", "c", "i", "a", "r", "y", " ", "1", " ", "N", "a", "m", "e">>, <<>>)
           rel == Get(intake, <<"B", "e", "n", "e", "f", "i", "c", "i", "a", "r", "y", " ", "1", " ", "R", "e", "l">>, <<>>)
           pct == Get(intake, <<"B", "e", "n", "e", "f", "i", "c", "i", "a", "r", "y", " ", "1", " ", "P", "c", "t">>, <<>>)
       IN  IF name # <<>> THEN << name \o <<" ", "(">> \o rel \o <<")", " ">> \o pct \o <<"%">> >> ELSE <<>>

\* the beneficiary entries of bene_parts
RECURSIVE BeneficiaryParts(_, _)
BeneficiaryParts(intake, i) ==
  IF i > 2 THEN <<>>
  ELSE LET name == Get(intake, <<"B", "e", "n", "e", "f", "i", "c", "i", "a", "r", "y", " ">> \o Str(i) \o <<" ", "N", "a", "m", "e">>, <<>>)
           rel == Get(intake, <<"B", "e", "n", "e", "f", "i", "c", "i", "a", "r", "y", " ">> \o Str(i) \o <<" ", "R", "e", "l">>, <<>>)
           pct == Get(intake, <<"B", "e", "n", "e", "f", "i", "c", "i", "a", "r", "y", " ">> \o Str(i) \o <<" ", "P", "c", "t">>, <<>>)
       IN  (IF name # <<>> THEN << name \o <<" ", "(">> \o rel \o <<")", " ">> \o pct \o <<"%">> >> ELSE <<>>)
             \o BeneficiaryParts(intake, i + 1)

\* the co-holder entry of bene_parts
CoOwnerParts(intake) ==
  LET co_owner == Get(intake, <<"C", "o", "-", "A", "c", "c", "o", "u", "n", "t", " ", "H", "o", "l", "d", "e", "r", " ", "N", "a", "m", "e">>, <<>>)
  IN  IF co_owner # <<>>
      THEN << <<"C", "o", "-", "A", "c", "c", "o", "u", "n", "t", " ", "H", "o", "l", "d", "e", "r", ":", " ">> \o co_owner \o <<",", " ", "D", "O", "B", " ">>
                \o Get(intake, <<"C", "o", "-", "A", "c", "c", "o", "u", "n", "t", " ", "H", "o", "l", "d", "e", "r", " ", "D", "O", "B">>, <<>>) >>
      ELSE <<>>

\* the child entries of bene_parts
RECURSIVE ChildParts(_, _)
ChildParts(intake, child_idx) ==
  IF ~Has(intake, <<"C", "h", "i", "l", "d", " ">> \o Str(child_idx) \o <<" ", "N", "a", "m", "e">>) THEN <<>>
  ELSE LET cn == Get(intake, <<"C", "h", "i", "l", "d", " ">> \o Str(child_idx) \o <<" ", "N", "a", "m", "e">>, <<>>)
           dob == Get(intake, <<"C", "h", "i", "l", "d", " ">> \o Str(child_idx) \o <<" ", "D", "O", "B">>, <<>>)
       IN  << <<"C", "h", "i", "l", "d", " ">> \o Str(child_idx) \o <<":", " ">> \o cn
                \o (IF dob # <<>> THEN <<",", " ", "D", "O", "B", " ">> \o dob ELSE <<>>) >>
             \o ChildParts(intake, child_idx + 1)

\* bene_parts of _do_register
BeneParts(intake) ==
  BeneficiaryParts(intake, 1) \o CoOwnerParts(intake) \o ChildParts(intake, 1)

\* the Salesforce field and the intake key of each argument of
\* create_salesforce_contact in _do_register, Description apart
ContactFields ==
  << <<<<"F", "i", "r", "s", "t", "N", "a", "m", "e">>, <<"F", "i", "r", "s", "t", " ", "N", "a", "m", "e">>>>, <<<<"L", "a", "s", "t", "N", "a", "m", "e">>, <<"L", "a", "s", "t", " ", "N", "a", "m", "e">>>>,
     <<<<"E", "m", "a", "i", "l">>, <<"E", "m", "a", "i", "l">>>>, <<<<"P", "h", "o", "n", "e">>, <<"P", "h", "o", "n", "e">>>>,
     <<<<"B", "i", "r", "t", "h", "d", "a", "t", "e">>, <<"D", "a", "t", "e", " ", "o", "f", " ", "B", "i", "r", "t", "h">>>>, <<<<"M", "a", "i", "l", "i", "n", "g", "S", "t", "r", "e", "e", "t">>, <<"A", "d", "d", "r", "e", "s", "s">>>>,
     <<<<"M", "a", "i", "l", "i", "n", "g", "C", "i", "t", "y">>, <<"C", "i", "t", "y">>>>, <<<<"M", "a", "i", "l", "i", "n", "g", "S", "t", "a", "t", "e">>, <<"S", "t", "a", "t", "e">>>>,
     <<<<"M", "a", "i", "l", "i", "n", "g", "P", "o", "s", "t", "a", "l", "C", "o", "d", "e">>, <<"Z", "I", "P">>>>, <<<<"A", "n", "n", "u", "a", "l", "_", "I", "n", "c", "o", "m", "e", "_", "_", "c">>, <<"A", "n", "n", "u", "a", "l", " ", "I", "n", "c", "o", "m", "e">>>>,
     <<<<"A", "c", "c", "o", "u", "n", "t", "N", "a", "m", "e">>, <<"E", "m", "p", "l", "o", "y", "e", "r">>>>, <<<<"T", "i", "t", "l", "e">>, <<"O", "c", "c", "u", "p", "a", "t", "i", "o", "n">>>>,
     <<<<"R", "i", "s", "k", "_", "T", "o", "l", "e", "r", "a", "n", "c", "e", "_", "_", "c">>, <<"R", "i", "s", "k", " ", "T", "o", "l", "e", "r", "a", "n", "c", "e">>>>,
     <<<<"I", "n", "v", "e", "s", "t", "m", "e", "n", "t", "_", "G", "o", "a", "l", "_", "_", "c">>, <<"I", "n", "v", "e", "s", "t", "m", "e", "n", "t", " ", "G", "o", "a", "l">>>>,
     <<<<"T", "i", "m", "e", "_", "H", "o", "r", "i", "z", "o", "n", "_", "_", "c">>, <<"T", "i", "m", "e", " ", "H", "o", "r", "i", "z", "o", "n", " ", "(", "y", "r", "s", ")">>>>,
     <<<<"N", "e", "t", "_", "W", "o", "r", "t", "h", "_", "_", "c">>, <<"E", "s", "t", ".", " ", "N", "e", "t", " ", "W", "o", "r", "t", "h">>>>, <<<<"L", "i", "q", "u", "i", "d", "_", "A", "s", "s", "e", "t", "s", "_", "_", "c">>, <<"L", "i", "q", "u", "i", "d", " ", "A", "s", "s", "e", "t", "s">>>>,
     <<<<"L", "e", "a", "d", "S", "o", "u", "r", "c", "e">>, <<"R", "e", "f", "e", "r", "r", "a", "l", " ", "S", "o", "u", "r", "c", "e">>>> >>

\* sf_id of MockSalesforce.create_contact
SfId(seq) == <<"0", "0", "3">> \o ZeroPad(Str(seq), SeqWidth)

\* record of MockSalesforce.create_contact, for the fields _do_register passes
SfRecord(seq, now, intake) ==
  << <<<<"I", "d">>, SfId(seq)>>, <<<<"R", "e", "c", "o", "r", "d", "T", "y", "p", "e">>, <<"W", "e", "a", "l", "t", "h", "M", "a", "n", "a", "g", "e", "m", "e", "n", "t", "C", "l", "i", "e", "n", "t">>>>,
     <<<<"C", "r", "e", "a", "t", "e", "d", "D", "a", "t", "e">>, now>> >>
    \o [i \in 1..Len(ContactFields) |->
          <<ContactFields[i][1], Get(intake, ContactFields[i][2], <<>>)>>]
    \o << <<<<"D", "e", "s", "c", "r", "i", "p", "t", "i", "o", "n">>, Join(BeneParts(intake), <<" ", " ", "|", " ", " ">>)>> >>

\* the profile lines _build_client_context writes for the items of intake
RECURSIVE ProfileLines(_)
ProfileLines(intake) ==
  IF intake = <<>> THEN <<>>
  ELSE LET k == Head(intake)[1]
           v == Head(intake)[2]
       IN  (IF StartsWith(k, <<"_", "_">>) \/ k \in {<<"N", "o", "t", "e", "s">>, <<"W", "A", "S">>, <<"F", "e", "e">>} \/ v = <<>>
            THEN <<>>
            ELSE << <<" ", " ">> \o k \o <<":", " ">> \o v >>)
             \o ProfileLines(Tail(intake))

\* the lines _build_client_context writes for the registry entry of name
RegistrationLines(registry, name) ==
  IF ~HasRegistryEntry(registry, name) THEN <<>>
  ELSE LET entry == RegistryEntry(registry, name) IN
       << <<"=", "=", "=", " ", "R", "E", "G", "I", "S", "T", "R", "A", "T", "I", "O", "N", " ", "P", "R", "O", "F", "I", "L", "E", " ", "=", "=", "=">> >>
         \o ProfileLines(entry.intake)
         \o (IF Get(entry.intake, <<"N", "o", "t", "e", "s">>, <<>>) # <<>>
             THEN << <<" ", " ", "N", "o", "t", "e", "s", " ", "/", " ", "I", "n", "s", "t", "r", "u", "c", "t", "i", "o", "n", "s", ":", " ">> \o Get(entry.intake, <<"N", "o", "t", "e", "s">>, <<>>) >>
             ELSE <<>>)
         \o (IF Get(entry.intake, <<"F", "e", "e">>, <<>>) # <<>>
             THEN << <<" ", " ", "F", "e", "e", " ", "S", "t", "r", "u", "c", "t", "u", "r", "e", " ", "(", "i", "n", "t", "e", "r", "n", "a", "l", ")", ":", " ">> \o Get(entry.intake, <<"F", "e", "e">>, <<>>) >>
             ELSE <<>>)
         \o (IF Get(entry.intake, <<"W", "A", "S">>, <<>>) # <<>>
             THEN << <<" ", " ", "W", "A", "S", " ", "(", "i", "n", "t", "e", "r", "n", "a", "l", ")", ":", " ">> \o Get(entry.intake, <<"W", "A", "S">>, <<>>) >>
             ELSE <<>>)
         \o (IF entry.registered_at # <<>>
             THEN << <<" ", " ", "R", "e", "g", "i", "s", "t", "r", "a", "t", "i", "o", "n", " ", "D", "a", "t", "e", ":", " ">>
                       \o SubSeq(entry.registered_at, 1, 10) >>
             ELSE <<>>)
         \o << <<>> >>

\* s.upper()
Upper(s) == [i \in 1..Len(s) |-> UpperChar(s[i])]

\* the lines _build_client_context writes for one sheet
SheetLines(sheet, rows) ==
  IF rows = <<>> THEN <<>>
  ELSE LET headers == [i \in 1..Len(rows[1]) |-> rows[1][i][1]]
       IN  << <<"=", "=", "=", " ">> \o Upper(sheet) \o <<" ", "=", "=", "=">>, <<" ", " ">> \o Join(headers, <<" ", "|", " ">>) >>
             \o [r \in 1..Len(rows) |->
                   <<" ", " ">> \o Join([h \in 1..Len(headers) |-> Get(rows[r], headers[h], <<>>)],
                                <<" ", "|", " ">>)]
             \o << <<>> >>

RECURSIVE AccountLines(_)
AccountLines(data) ==
  IF data = <<>> THEN <<>>
  ELSE SheetLines(Head(data)[1], Head(data)[2]) \o AccountLines(Tail(data))

\* the lines of _build_client_context(name); found holds the stem of the file
\* find_client_file returned and is empty when it found none
BuildClientContext(registry, name, found) ==
  << <<"C", "L", "I", "E", "N", "T", ":", " ">> \o name, <<>> >>
    \o RegistrationLines(registry, name)
    \o (IF found # <<>>
        THEN AccountLines(SheetsOf(found[1]))
        ELSE << <<"=", "=", "=", " ", "A", "C", "C", "O", "U", "N", "T", " ", "D", "A", "T", "A", " ", "=", "=", "=">>,
                <<" ", " ", "N", "o", " ", "E", "x", "c", "e", "l", " ", "a", "c", "c", "o", "u", "n", "t", " ", "f", "i", "l", "e", " ", "o", "n", " ", "r", "e", "c", "o", "r", "d", " ", "f", "o", "r", " ", "t", "h", "i", "s", " ", "c", "l", "i", "e", "n", "t", ".">>,
                <<" ", " ", "A", "n", "a", "l", "y", "s", "i", "s", " ", "i", "s", " ", "l", "i", "m", "i", "t", "e", "d", " ", "t", "o", " ", "r", "e", "g", "i", "s", "t", "r", "a", "t", "i", "o", "n", " ", "p", "r", "o", "f", "i", "l", "e", " ", "a", "b", "o", "v", "e", ".">>,
                <<>> >>)

\* client_full of the Register Client page
ClientFull(intake) ==
  Strip(Get(intake, <<"F", "i", "r", "s", "t", " ", "N", "a", "m", "e">>, <<>>) \o <<" ">> \o Get(intake, <<"L", "a", "s", "t", " ", "N", "a", "m", "e">>, <<>>))

\* datetime.utcnow().isoformat() + "Z" at the n-th registration
UtcNow(n) == <<"2", "0", "2", "6", "-", "0", "1", "-", "0", "5", "T", "1", "0", ":", "0", "0", ":", "0">> \o Str(n) \o <<"Z">>

\* the client files the data directory can hold
FileStems == {<<"r", "o", "b", "e", "r", "t", "_", "t", "h", "o", "r", "n", "t", "o", "n">>, <<"l", "e", "e", "_", "2", "0", "2", "5">>}

\* intake_rows of create_dummy_data; the cell "None" of the row Existing Advisor
\* is read back as written or as a missing cell, by the version of the reader
SampleRows(advisor) ==
  << <<<<"F", "i", "r", "s", "t", " ", "N", "a", "m", "e">>, <<"R", "o", "b", "e", "r", "t">>>>, <<<<"L", "a", "s", "t", " ", "N", "a", "m", "e">>, <<"T", "h", "o", "r", "n", "t", "o", "n">>>>,
     <<<<"D", "a", "t", "e", " ", "o", "f", " ", "B", "i", "r", "t", "h">>, <<"1", "9", "6", "8", "-", "0", "4", "-", "1", "5">>>>, <<<<"S", "S", "N", " ", "L", "a", "s", "t", " ", "4">>, <<"4", "7", "2", "1">>>>,
     <<<<"A", "d", "d", "r", "e", "s", "s">>, <<"1", "8", "4", "7", " ", "L", "a", "k", "e", "s", "h", "i", "r", "e", " ", "D", "r">>>>, <<<<"C", "i", "t", "y">>, <<"N", "a", "p", "e", "r", "v", "i", "l", "l", "e">>>>,
     <<<<"S", "t", "a", "t", "e">>, <<"I", "L">>>>, <<<<"Z", "I", "P">>, <<"6", "0", "5", "4", "0">>>>,
     <<<<"P", "h", "o", "n", "e">>, <<"(", "6", "3", "0", ")", " ", "5", "5", "5", "-", "0", "1", "9", "2">>>>, <<<<"E", "m", "a", "i", "l">>, <<"r", ".", "t", "h", "o", "r", "n", "t", "o", "n", "@", "e", "m", "a", "i", "l", ".", "c", "o", "m">>>>,
     <<<<"E", "m", "p", "l", "o", "y", "e", "r">>, <<"T", "h", "o", "r", "n", "t", "o", "n", " ", "M", "a", "n", "u", "f", "a", "c", "t", "u", "r", "i", "n", "g", " ", "I", "n", "c", ".">>>>,
     <<<<"A", "n", "n", "u", "a", "l", " ", "I", "n", "c", "o", "m", "e">>, <<"2", "8", "5", "0", "0", "0">>>>, <<<<"O", "c", "c", "u", "p", "a", "t", "i", "o", "n">>, <<"C", "E", "O">>>>,
     <<<<"R", "i", "s", "k", " ", "T", "o", "l", "e", "r", "a", "n", "c", "e">>, <<"M", "o", "d", "e", "r", "a", "t", "e", "-", "A", "g", "g", "r", "e", "s", "s", "i", "v", "e">>>>,
     <<<<"I", "n", "v", "e", "s", "t", "m", "e", "n", "t", " ", "G", "o", "a", "l">>, <<"R", "e", "t", "i", "r", "e", "m", "e", "n", "t", " ", "&", " ", "W", "e", "a", "l", "t", "h", " ", "P", "r", "e", "s", "e", "r", "v", "a", "t", "i", "o", "n">>>>,
     <<<<"T", "i", "m", "e", " ", "H", "o", "r", "i", "z", "o", "n", " ", "(", "y", "r", "s", ")">>, <<"1", "5">>>>, <<<<"S", "p", "o", "u", "s", "e", " ", "N", "a", "m", "e">>, <<"L", "i", "n", "d", "a", " ", "T", "h", "o", "r", "n", "t", "o", "n">>>>,
     <<<<"S", "p", "o", "u", "s", "e", " ", "D", "O", "B">>, <<"1", "9", "7", "0", "-", "0", "9", "-", "2", "2">>>>,
     <<<<"B", "e", "n", "e", "f", "i", "c", "i", "a", "r", "y", " ", "1", " ", "N", "a", "m", "e">>, <<"R", "o", "b", "e", "r", "t", " ", "T", "h", "o", "r", "n", "t", "o", "n", " ", "J", "r", ".">>>>,
     <<<<"B", "e", "n", "e", "f", "i", "c", "i", "a", "r", "y", " ", "1", " ", "R", "e", "l">>, <<"S", "o", "n">>>>, <<<<"B", "e", "n", "e", "f", "i", "c", "i", "a", "r", "y", " ", "1", " ", "P", "c", "t">>, <<"5", "0">>>>,
     <<<<"B", "e", "n", "e", "f", "i", "c", "i", "a", "r", "y", " ", "2", " ", "N", "a", "m", "e">>, <<"S", "a", "r", "a", "h", " ", "T", "h", "o", "r", "n", "t", "o", "n">>>>,
     <<<<"B", "e", "n", "e", "f", "i", "c", "i", "a", "r", "y", " ", "2", " ", "R", "e", "l">>, <<"D", "a", "u", "g", "h", "t", "e", "r">>>>, <<<<"B", "e", "n", "e", "f", "i", "c", "i", "a", "r", "y", " ", "2", " ", "P", "c", "t">>, <<"5", "0">>>>,
     <<<<"E", "s", "t", ".", " ", "N", "e", "t", " ", "W", "o", "r", "t", "h">>, <<"3", "2", "0", "0", "0", "0", "0">>>>, <<<<"L", "i", "q", "u", "i", "d", " ", "A", "s", "s", "e", "t", "s">>, <<"8", "5", "0", "0", "0", "0">>>>,
     <<<<"E", "x", "i", "s", "t", "i", "n", "g", " ", "A", "d", "v", "i", "s", "o", "r">>, advisor>>,
     <<<<"R", "e", "f", "e", "r", "r", "a", "l", " ", "S", "o", "u", "r", "c", "e">>, <<"B", "u", "s", "i", "n", "e", "s", "s", " ", "c", "o", "l", "l", "e", "a", "g", "u", "e">>>> >>

\* the header row to_excel writes for columns=["Field", "Value"]
SampleHeader == <<<<"F", "i", "e", "l", "d">>, <<"V", "a", "l", "u", "e">>>>

\* the loop of the key-value branch of _read_intake_form over the rows given
RECURSIVE ReadKeyValueFrom(_, _, _)
ReadKeyValueFrom(rows, i, raw) ==
  IF i > Len(rows) THEN raw
  ELSE LET label == Strip(rows[i][1])
           val   == Strip(rows[i][2])
           next  == IF label # <<>> /\ Lower(label) \notin {<<"n", "a", "n">>, <<"n", "o", "n", "e">>, <<"f", "i", "e", "l", "d">>}
                    THEN Put(raw, label, val) ELSE raw
       IN  IF Len(next) >= 0 THEN ReadKeyValueFrom(rows, i + 1, next) ELSE next

\* _read_intake_form of a table of the key-value layout: one normalised record
ReadKeyValue(rows) == <<NormalizeFields(ReadKeyValueFrom(rows, 1, <<>>))>>

\* the record the Register Client page selects from client_intake.xlsx
SampleIntakes ==
  { ComposeHousehold(ReadKeyValue(SampleRows(advisor))) : advisor \in {<<"N", "o", "n", "e">>, <<>>} }

\* household records the Register Client page can select
CtxIntakes ==
  LET ann == NormalizeFields(<< <<<<"F", "i", "r", "s", "t", " ", "N", "a", "m", "e">>, <<"A", "n", "n">>>>, <<<<"L", "a", "s", "t", " ", "N", "a", "m", "e">>, <<"L", "e", "e">>>>,
                                <<<<"W", "A", "S">>, <<"W", "-", "7">>>>, <<<<"F", "e", "e">>, <<"1", ".", "5", "%">>>> >>)
      bob == NormalizeFields(<< <<<<"F", "i", "r", "s", "t", " ", "N", "a", "m", "e">>, <<"B", "o", "b">>>>, <<<<"L", "a", "s", "t", " ", "N", "a", "m", "e">>, <<"L", "e", "e">>>>,
                                <<<<"D", "O", "B">>, <<"1", "9", "9", "0", "-", "0", "1", "-", "0", "2">>>> >>)
  IN  { ann,
        NormalizeFields(<< <<<<"F", "u", "l", "l", " ", "N", "a", "m", "e">>, <<"R", "o", "b", "e", "r", "t", " ", "T", "h", "o", "r", "n", "t", "o", "n">>>>, <<<<"N", "o", "t", "e", "s">>, <<"c", "a", "l", "l">>>>,
                           <<<<"F", "e", "e">>, <<"1", ".", "5", "%">>>> >>),
        NormalizeFields(<< <<<<"F", "i", "r", "s", "t", " ", "N", "a", "m", "e">>, <<"A", "N", "N">>>>, <<<<"L", "a", "s", "t", " ", "N", "a", "m", "e">>, <<"L", "E", "E">>>>,
                           <<<<"W", "A", "S">>, <<"W", "-", "7">>>> >>),
        NormalizeFields(<< <<<<"F", "i", "r", "s", "t", " ", "N", "a", "m", "e">>, <<"A", "n", "n">>>>, <<<<"L", "a", "s", "t", " ", "N", "a", "m", "e">>, <<"L", "e", "e">>>>,
                           <<<<"E", "m", "a", "i", "l">>, <<>> >> >>),
        ComposeHousehold(<< Put(ann, <<"_", "_", "c", "l", "i", "e", "n", "t", "_", "l", "a", "b", "e", "l", "_", "_">>, <<"A", "n", "n", " ", "L", "e", "e">>),
                            Put(bob, <<"_", "_", "c", "l", "i", "e", "n", "t", "_", "l", "a", "b", "e", "l", "_", "_">>, <<"B", "o", "b", " ", "L", "e", "e">>) >>),
        <<>> }

CtxInit ==
  /\ cx_pc = "ready"
  /\ cx_haskey \in BOOLEAN
  /\ cx_files \in SUBSET FileStems
  /\ cx_registry = <<>>
  /\ sf_seq = FirstSeq
  /\ sf_records = <<>>
  /\ cx_client = <<>>
  /\ cx_sent = <<>>
  /\ NormIdle
  /\ IntakeIdle
  /\ RenderIdle
  /\ MapIdle
  /\ BatchIdle
  /\ RaceIdle

\* Register Client page, "Register Client" pressed with intake selected:
\* _do_register, then _save_to_registry
RegisterIntake(intake) ==
  /\ cx_pc \in {"ready", "asked"}
  /\ sf_seq < FirstSeq + MaxContacts
  /\ LET now == UtcNow(sf_seq - FirstSeq)
         record == SfRecord(sf_seq, now, intake)
     IN  /\ sf_records' = Append(sf_records, <<SfId(sf_seq), record>>)
         /\ cx_registry' = SaveToRegistry(cx_registry, ClientFull(intake), SfId(sf_seq),
                                           now, intake, record)
  /\ sf_seq' = sf_seq + 1
  /\ cx_pc' = "ready"
  /\ UNCHANGED <<cx_haskey, cx_files, cx_client, cx_sent>>
  /\ UNCHANGED notCtx

CtxRegister == \E intake \in CtxIntakes : RegisterIntake(intake)

\* AI Advisor page, a question asked about sel_client with an API key set:
\* the context is built and sent inside the system prompt
CtxAskAdvisor ==
  /\ cx_pc \in {"ready", "asked"}
  /\ cx_haskey
  /\ \E sel_client \in AllKnownClients(cx_registry, cx_files) :
       /\ HasRegistryEntry(cx_registry, sel_client) \/ ClientHasExcel(cx_files, sel_client)
       /\ cx_client' = <<sel_client>>
       /\ IF FindClientFile(cx_files, sel_client) = {}
          THEN cx_sent' = <<BuildClientContext(cx_registry, sel_client, <<>>)>>
          ELSE \E f \in FindClientFile(cx_files, sel_client) :
                 cx_sent' = <<BuildClientContext(cx_registry, sel_client, <<f>>)>>
  /\ cx_pc' = "asked"
  /\ UNCHANGED <<cx_haskey, cx_files, cx_registry, sf_seq, sf_records>>
  /\ UNCHANGED notCtx

\* AI Advisor page, a question asked without an API key: nothing is built or sent
CtxAskNoKey ==
  /\ cx_pc \in {"ready", "asked"}
  /\ ~cx_haskey
  /\ \E sel_client \in AllKnownClients(cx_registry, cx_files) :
       /\ HasRegistryEntry(cx_registry, sel_client) \/ ClientHasExcel(cx_files, sel_client)
       /\ cx_client' = <<sel_client>>
  /\ cx_pc' = "asked"
  /\ UNCHANGED <<cx_haskey, cx_files, cx_registry, sf_seq, sf_records, cx_sent>>
  /\ UNCHANGED notCtx

CtxNext == CtxRegister \/ CtxAskAdvisor \/ CtxAskNoKey

SpecCtx == CtxInit /\ [][CtxNext]_vars

\* the records registered before account data is uploaded: the sample intake, a
\* name with an apostrophe and a plain name
AccountIntakes ==
  SampleIntakes \cup
    { NormalizeFields(<< <<<<"F", "i", "r", "s", "t", " ", "N", "a", "m", "e">>, <<"D", "i">>>>, <<<<"L", "a", "s", "t", " ", "N", "a", "m", "e">>, <<"O", "'", "H", "a", "r", "a">>>> >>),
      NormalizeFields(<< <<<<"F", "i", "r", "s", "t", " ", "N", "a", "m", "e">>, <<"A", "n", "n">>>>, <<<<"L", "a", "s", "t", " ", "N", "a", "m", "e">>, <<"L", "e", "e">>>> >>) }

AccountRegister == \E intake \in AccountIntakes : RegisterIntake(intake)

\* _registered_without_data(), as a set
RegisteredWithoutData(registry, files) ==
  {n \in RegistryNames(registry) :
     \A m \in AvailableExcelClients(files) : Lower(m) # Lower(n)}

\* Meeting Prep page, "Save account data" pressed for upload_target, one of the
\* clients listed as missing Excel data: _save_account_data writes the file named
\* by _name_to_filename. Names without a word character are left out.
CtxSaveAccountData ==
  /\ cx_pc \in {"ready", "asked"}
  /\ \E upload_target \in RegisteredWithoutData(cx_registry, cx_files) :
       /\ SlugStem(upload_target) # <<>>
       /\ cx_files' = cx_files \cup {SlugStem(upload_target)}
  /\ UNCHANGED <<cx_pc, cx_haskey, cx_registry, sf_seq, sf_records, cx_client, cx_sent>>
  /\ UNCHANGED notCtx

AccountNext == AccountRegister \/ CtxSaveAccountData

SpecAccount == CtxInit /\ [][AccountNext]_vars

\* the lines of the context last sent that contain text
SentLinesWith(text) ==
  {i \in 1..Len(cx_sent[1]) : Contains(cx_sent[1][i], text)}

\* C2: for a registered client whose intake holds a WAS or Fee value, the context
\* built for that client and sent to the completion service contains neither value.
C2_InternalExcluded ==
  (cx_pc = "asked" /\ cx_sent # <<>> /\ HasRegistryEntry(cx_registry, cx_client[1]))
    => LET intake == RegistryEntry(cx_registry, cx_client[1]).intake
           was == Get(intake, <<"W", "A", "S">>, <<>>)
           fee == Get(intake, <<"F", "e", "e">>, <<>>)
       IN  /\ was # <<>> => SentLinesWith(was) = {}
           /\ fee # <<>> => SentLinesWith(fee) = {}

(***************************************************************************)
(* Document renderer: _fill and the fallback _generate_simple_pdf.         *)
(***************************************************************************)
MaxFields == 47

\* characters outside ASCII, each one character of a text
EnDash == "<U+2013>"

Ellipsis == "<U+2026>"

_PERSONAL_PDF == <<"I", "W", "S", "P", "e", "r", "s", "o", "n", "a", "l", "A", "p", "p", "_", "D", "e", "c", "2", "0", "2", "4", ".", "p", "d", "f">>

_TRUST_PDF == <<"I", "W", "S", "T", "r", "u", "s", "t", "A", "p", "p", "_", "D", "e", "c", "2", "0", "2", "4", ".", "p", "d", "f">>

_ADVISOR_PDF == <<"A", "d", "d", "_", "R", "e", "m", "o", "v", "e", "A", "d", "v", "i", "s", "o", "r", "_", "B", "r", "o", "k", "e", "r", "a", "g", "e", "_", "J", "a", "n", "2", "0", "2", "6", ".", "p", "d", "f">>

_JOURNAL_PDF == <<"J", "o", "u", "r", "n", "a", "l", "R", "e", "q", "u", "e", "s", "t", "_", "M", "a", "y", "2", "0", "2", "1", "_", "r", "e", "v", ".", "p", "d", "f">>

\* key, label and file of each entry of FORM_CATALOG
FORM_CATALOG ==
  << [key |-> <<"I", "W", "S", "P", "e", "r", "s", "o", "n", "a", "l", "A", "p", "p">>, label |-> <<"I", "W", "S", " ", "P", "e", "r", "s", "o", "n", "a", "l", " ", "/", " ", "J", "o", "i", "n", "t", " ", "A", "c", "c", "o", "u", "n", "t", " ", "A", "p", "p", "l", "i", "c", "a", "t", "i", "o", "n">>,
      file |-> <<"I", "W", "S", "P", "e", "r", "s", "o", "n", "a", "l", "A", "p", "p", "_", "D", "e", "c", "2", "0", "2", "4", ".", "p", "d", "f">>],
     [key |-> <<"I", "W", "S", "T", "r", "u", "s", "t", "A", "p", "p">>, label |-> <<"I", "W", "S", " ", "T", "r", "u", "s", "t", " ", "A", "c", "c", "o", "u", "n", "t", " ", "A", "p", "p", "l", "i", "c", "a", "t", "i", "o", "n">>,
      file |-> <<"I", "W", "S", "T", "r", "u", "s", "t", "A", "p", "p", "_", "D", "e", "c", "2", "0", "2", "4", ".", "p", "d", "f">>],
     [key |-> <<"A", "d", "d", "R", "e", "m", "o", "v", "e", "A", "d", "v", "i", "s", "o", "r">>,
      label |-> <<"A", "d", "d", " ", "/", " ", "R", "e", "m", "o", "v", "e", " ", "A", "d", "v", "i", "s", "o", "r", " ">> \o <<EnDash>> \o <<" ", "B", "r", "o", "k", "e", "r", "a", "g", "e">>,
      file |-> <<"A", "d", "d", "_", "R", "e", "m", "o", "v", "e", "A", "d", "v", "i", "s", "o", "r", "_", "B", "r", "o", "k", "e", "r", "a", "g", "e", "_", "J", "a", "n", "2", "0", "2", "6", ".", "p", "d", "f">>],
     [key |-> <<"J", "o", "u", "r", "n", "a", "l", "R", "e", "q", "u", "e", "s", "t">>, label |-> <<"J", "o", "u", "r", "n", "a", "l", " ", "/", " ", "I", "n", "t", "e", "r", "n", "a", "l", " ", "T", "r", "a", "n", "s", "f", "e", "r", " ", "R", "e", "q", "u", "e", "s", "t">>,
      file |-> <<"J", "o", "u", "r", "n", "a", "l", "R", "e", "q", "u", "e", "s", "t", "_", "M", "a", "y", "2", "0", "2", "1", "_", "r", "e", "v", ".", "p", "d", "f">>] >>

_FORM_TITLES ==
  << <<_PERSONAL_PDF, <<"I", "W", "S", " ", "P", "e", "r", "s", "o", "n", "a", "l", " ", "A", "c", "c", "o", "u", "n", "t", " ", "A", "p", "p", "l", "i", "c", "a", "t", "i", "o", "n">>>>,
     <<_TRUST_PDF, <<"I", "W", "S", " ", "T", "r", "u", "s", "t", " ", "A", "c", "c", "o", "u", "n", "t", " ", "A", "p", "p", "l", "i", "c", "a", "t", "i", "o", "n">>>>,
     <<_ADVISOR_PDF, <<"A", "d", "d", " ", "/", " ", "R", "e", "m", "o", "v", "e", " ", "A", "d", "v", "i", "s", "o", "r", " ">> \o <<EnDash>> \o <<" ", "B", "r", "o", "k", "e", "r", "a", "g", "e">>>>,
     <<_JOURNAL_PDF, <<"J", "o", "u", "r", "n", "a", "l", " ", "/", " ", "I", "n", "t", "e", "r", "n", "a", "l", " ", "T", "r", "a", "n", "s", "f", "e", "r", " ", "R", "e", "q", "u", "e", "s", "t">>>> >>

_FIELD_PREFIXES ==
  << <<"P", "I", "_">>, <<"A", "S", "_">>, <<"A", "S", "U", "_">>, <<"A", "I", "_">>, <<"A", "O", "_">>, <<"D", "A", "_">>, <<"J", "R", "_">>, <<"R", "A", "I", "_">>, <<"S", "D", "_">>, <<"C", "T", "_">>,
     <<"S", "a", "D", "_">> >>

PAGE_H == 792

ROW_H == 30

\* y of the first row of a page, returned by _new_page
FirstRowY == 88

\* height kept free at the bottom of a page by the page-break test
BottomReserve == 36

\* s.replace(sub, rep)
RECURSIVE ReplaceAll(_, _, _)
ReplaceAll(s, sub, rep) ==
  IF s = <<>> THEN <<>>
  ELSE IF StartsWith(s, sub) THEN rep \o ReplaceAll(SubSeq(s, Len(sub) + 1, Len(s)), sub, rep)
  ELSE <<Head(s)>> \o ReplaceAll(Tail(s), sub, rep)

\* title in _generate_simple_pdf
FormTitle(filename) ==
  Get(_FORM_TITLES, filename, ReplaceAll(ReplaceAll(filename, <<".", "p", "d", "f">>, <<>>), <<"_">>, <<" ">>))

IsUpper(c) == \E i \in 1..26 : UpperChars[i] = c

IsLower(c) == \E i \in 1..26 : LowerChars[i] = c

\* length of the longest prefix of s matching [a-z]*
RECURSIVE LowerRun(_)
LowerRun(s) == IF s # <<>> /\ IsLower(Head(s)) THEN 1 + LowerRun(Tail(s)) ELSE 0

\* length of the longest prefix of s matching [0-9]*
RECURSIVE DigitRun(_)
DigitRun(s) == IF s # <<>> /\ IsDigit(Head(s)) THEN 1 + DigitRun(Tail(s)) ELSE 0

\* re.sub(r"([A-Z][a-z]+|[0-9]+)", r" \1", s)
RECURSIVE SpaceWords(_)
SpaceWords(s) ==
  IF s = <<>> THEN <<>>
  ELSE IF IsUpper(Head(s)) /\ LowerRun(Tail(s)) > 0
       THEN <<" ">> \o SubSeq(s, 1, 1 + LowerRun(Tail(s)))
              \o SpaceWords(SubSeq(s, 2 + LowerRun(Tail(s)), Len(s)))
  ELSE IF IsDigit(Head(s))
       THEN <<" ">> \o SubSeq(s, 1, DigitRun(s)) \o SpaceWords(SubSeq(s, DigitRun(s) + 1, Len(s)))
  ELSE <<Head(s)>> \o SpaceWords(Tail(s))

\* key without the first prefix of _FIELD_PREFIXES it starts with
RECURSIVE StripPrefix(_, _)
StripPrefix(key, i) ==
  IF i > Len(_FIELD_PREFIXES) THEN key
  ELSE IF StartsWith(key, _FIELD_PREFIXES[i])
       THEN SubSeq(key, Len(_FIELD_PREFIXES[i]) + 1, Len(key))
  ELSE StripPrefix(key, i + 1)

\* _humanise_field(key)
HumaniseField(key) ==
  LET s == Strip(SpaceWords(StripPrefix(key, 1)))
  IN  IF s # <<>> THEN s ELSE key

\* label of a row
RowLabel(k) ==
  IF Len(HumaniseField(k)) > 40
  THEN SubSeq(HumaniseField(k), 1, 39) \o <<Ellipsis>>
  ELSE HumaniseField(k)

\* val_display of a row
RowValue(v) == IF Len(v) > 72 THEN SubSeq(v, 1, 72) \o <<Ellipsis>> ELSE v

\* display when the empty values are kept
DisplayAll(fields) == fields

\* display in _generate_simple_pdf
Display(fields) == SelectSeq(fields, LAMBDA kv : kv[2] # <<>>)

\* a page as _new_page leaves it
NewPage(title) == [headers |-> 1, title |-> title, rows |-> <<>>, footers |-> 0]

\* the page-break test of _generate_simple_pdf, with no bottom reserve
NeedsNewPageNoReserve(y) == y + ROW_H > PAGE_H

\* the page-break test of _generate_simple_pdf
NeedsNewPage(y) == y + ROW_H > PAGE_H - BottomReserve

\* the widgets of a template when every key of fields is written, empty or not
FillWidgetsAnyKey(widgets, fields) ==
  [i \in 1..Len(widgets) |->
     IF Has(fields, widgets[i][1])
     THEN <<widgets[i][1], Get(fields, widgets[i][1], <<>>)>>
     ELSE widgets[i]]

\* the widgets of a template after the loop of _fill
FillWidgets(widgets, fields) ==
  [i \in 1..Len(widgets) |->
     IF Has(fields, widgets[i][1]) /\ Get(fields, widgets[i][1], <<>>) # <<>>
     THEN <<widgets[i][1], Get(fields, widgets[i][1], <<>>)>>
     ELSE widgets[i]]

\* the field maps handed to the renderer: n non-empty values, alone (dense), after
\* an empty one (lead), or each followed by an empty one (sparse)
FieldMaps ==
  LET key(i) == <<"P", "I", "_", "H", "o", "l", "d", "e", "r", "K", "e", "y">> \o Str(i)
      value(i) == <<"v">> \o Str(i)
      dense(n) == [i \in 1..n |-> <<key(i), value(i)>>]
      lead(n) == << <<key(0), <<>> >> >> \o dense(n)
      sparse(n) == [i \in 1..(2 * n) |-> <<key(i), IF i % 2 = 1 THEN value(i) ELSE <<>> >>]
  IN  UNION {{dense(n), lead(n), sparse(n)} : n \in 0..MaxFields}

\* the widgets of a template
TemplateWidgets ==
  << <<<<"P", "I", "_", "H", "o", "l", "d", "e", "r", "K", "e", "y", "1">>, <<>> >>, <<<<"P", "I", "_", "H", "o", "l", "d", "e", "r", "K", "e", "y", "2">>, <<"o", "l", "d">>>>, <<<<"P", "I", "_", "F", "i", "r", "s", "t", "N", "a", "m", "e">>, <<>> >>,
     <<<<"P", "I", "_", "D", "O", "B">>, <<"o", "l", "d">>>>, <<<<"A", "S", "_", "U", "n", "m", "a", "p", "p", "e", "d">>, <<"k", "e", "e", "p">>>> >>

RenderInit ==
  /\ rd_pc = "call"
  /\ rd_file \in {FORM_CATALOG[i].file : i \in 1..Len(FORM_CATALOG)}
  /\ rd_template \in BOOLEAN
  /\ rd_widgets = IF rd_template THEN TemplateWidgets ELSE <<>>
  /\ rd_fields \in FieldMaps
  /\ rd_display = <<>>
  /\ rd_idx = 0
  /\ rd_y = 0
  /\ rd_pages = <<>>
  /\ rd_result = "none"
  /\ NormIdle
  /\ IntakeIdle
  /\ CtxIdle
  /\ MapIdle
  /\ BatchIdle
  /\ RaceIdle

\* _fill(filename, fields) with the template present
FillTemplate ==
  /\ rd_pc = "call"
  /\ rd_template
  /\ rd_widgets' = FillWidgets(rd_widgets, rd_fields)
  /\ rd_result' = "template"
  /\ rd_pc' = "done"
  /\ UNCHANGED <<rd_file, rd_template, rd_fields, rd_display, rd_idx, rd_y, rd_pages>>
  /\ UNCHANGED notRender

\* _fill(filename, fields) with the template absent: _generate_simple_pdf up to
\* its loop
GenerateSimplePdf ==
  /\ rd_pc = "call"
  /\ ~rd_template
  /\ rd_pages' = <<NewPage(FormTitle(rd_file))>>
  /\ rd_y' = FirstRowY
  /\ rd_display' = Display(rd_fields)
  /\ rd_idx' = 0
  /\ rd_pc' = "rows"
  /\ UNCHANGED <<rd_file, rd_template, rd_widgets, rd_fields, rd_result>>
  /\ UNCHANGED notRender

\* one iteration of the loop of _generate_simple_pdf
RenderRow ==
  /\ rd_pc = "rows"
  /\ rd_idx < Len(rd_display)
  /\ LET last == Len(rd_pages)
         closed == [rd_pages EXCEPT ![last].footers = @ + 1]
         pages == IF NeedsNewPage(rd_y)
                  THEN Append(closed, NewPage(FormTitle(rd_file)))
                  ELSE rd_pages
         y == IF NeedsNewPage(rd_y) THEN FirstRowY ELSE rd_y
         row == [y |-> y, stripe |-> (rd_idx % 2 = 0),
                 label |-> RowLabel(rd_display[rd_idx + 1][1]),
                 value |-> RowValue(rd_display[rd_idx + 1][2])]
     IN  /\ rd_pages' = [pages EXCEPT ![Len(pages)].rows = Append(@, row)]
         /\ rd_y' = y + ROW_H
  /\ rd_idx' = rd_idx + 1
  /\ UNCHANGED <<rd_pc, rd_file, rd_template, rd_widgets, rd_fields, rd_display, rd_result>>
  /\ UNCHANGED notRender

\* _generate_simple_pdf after its loop: footer on the last page, document saved
RenderFinish ==
  /\ rd_pc = "rows"
  /\ rd_idx = Len(rd_display)
  /\ rd_pages' = [rd_pages EXCEPT ![Len(rd_pages)].footers = @ + 1]
  /\ rd_result' = "fallback"
  /\ rd_pc' = "done"
  /\ UNCHANGED <<rd_file, rd_template, rd_widgets, rd_fields, rd_display, rd_idx, rd_y>>
  /\ UNCHANGED notRender

RenderNext == FillTemplate \/ GenerateSimplePdf \/ RenderRow \/ RenderFinish

SpecRender == RenderInit /\ [][RenderNext]_vars

\* FORM_CATALOG[key]["label"] of the document type whose file is filename
CatalogLabel(filename) ==
  FORM_CATALOG[CHOOSE i \in 1..Len(FORM_CATALOG) : FORM_CATALOG[i].file = filename].label

\* C3: a render requested while the template is absent returns a fallback document
\* whose header-band title, on every page, is the document type's catalog label.
C3_FallbackTitleIsLabel ==
  (rd_pc = "done" /\ ~rd_template)
    => /\ rd_result = "fallback"
       /\ \A p \in 1..Len(rd_pages) : rd_pages[p].title = CatalogLabel(rd_file)

\* number of non-empty fields of the field map
NonEmptyCount == Cardinality({i \in 1..Len(rd_fields) : rd_fields[i][2] # <<>>})

\* rows that fit between the first row and the bottom reserve
RowsPerPage == (PAGE_H - BottomReserve - FirstRowY) \div ROW_H

\* ceil(n / d)
CeilDiv(n, d) == (n + d - 1) \div d

\* C4 as stated: the fallback document of a field map with N non-empty fields has
\* exactly ceil(N / 22) pages.
C4_CeilPages ==
  (rd_pc = "done" /\ rd_result = "fallback")
    => Len(rd_pages) = CeilDiv(NonEmptyCount, 22)

\* C4 amended: 22 rows fit a page, and the fallback document has ceil(N / 22)
\* pages for N >= 1 non-empty fields and one page for N = 0.
C4_PageCount ==
  /\ RowsPerPage = 22
  /\ (rd_pc = "done" /\ rd_result = "fallback")
       => Len(rd_pages) = (IF NonEmptyCount = 0 THEN 1 ELSE CeilDiv(NonEmptyCount, 22))

C4_Witness ==
  /\ rd_pc = "done"
  /\ rd_result = "fallback"
  /\ NonEmptyCount = 47
  /\ Len(rd_pages) = 3

(***************************************************************************)
(* Field mapper: fill_form and the four fill_* functions of pdf_filler.    *)
(***************************************************************************)
\* _split_name returning a placeholder first name for a blank name
SplitNamePlaceholder(full_name) ==
  LET parts == Split(Strip(full_name))
  IN  IF parts = <<>> THEN << <<"N", "/", "A">>, <<>>, <<>> >>
      ELSE IF Len(parts) = 1 THEN << parts[1], <<>>, <<>> >>
      ELSE IF Len(parts) = 2 THEN << parts[1], <<>>, parts[2] >>
      ELSE << parts[1], <<UpperChar(parts[2][1])>>, Join(SubSeq(parts, 3, Len(parts)), <<" ">>) >>

\* _split_name(full_name), as <<first, mi, last>>
SplitName(full_name) ==
  LET parts == Split(Strip(full_name))
  IN  IF parts = <<>> THEN << <<>>, <<>>, <<>> >>
      ELSE IF Len(parts) = 1 THEN << parts[1], <<>>, <<>> >>
      ELSE IF Len(parts) = 2 THEN << parts[1], <<>>, parts[2] >>
      ELSE << parts[1], <<UpperChar(parts[2][1])>>, Join(SubSeq(parts, 3, Len(parts)), <<" ">>) >>

\* s.split(sep) for a single character sep
RECURSIVE SplitOnFrom(_, _, _)
SplitOnFrom(s, sep, acc) ==
  IF \A i \in 1..Len(s) : s[i] # sep THEN Append(acc, s)
  ELSE LET p == CHOOSE i \in 1..Len(s) : s[i] = sep /\ \A j \in 1..(i - 1) : s[j] # sep
       IN  SplitOnFrom(SubSeq(s, p + 1, Len(s)), sep, Append(acc, SubSeq(s, 1, p - 1)))

SplitOn(s, sep) == SplitOnFrom(s, sep, <<>>)

\* _parse_address filling in a state when the address names none
ParseAddressDefaultState(raw) ==
  IF raw = <<>> THEN << <<>>, <<>>, <<>>, <<>>, <<"U", "S", "A">> >>
  ELSE LET parts == [i \in 1..Len(SplitOn(raw, ",")) |-> Strip(SplitOn(raw, ",")[i])]
           st_zip == Split(Strip(parts[3]))
       IN  IF Len(parts) >= 3
           THEN << parts[1], parts[2],
                   IF st_zip # <<>> THEN st_zip[1] ELSE <<>>,
                   IF Len(st_zip) > 1 THEN st_zip[2] ELSE <<>>,
                   <<"U", "S", "A">> >>
           ELSE IF Len(parts) = 2 THEN << parts[1], parts[2], <<"N", "Y">>, <<>>, <<"U", "S", "A">> >>
           ELSE << raw, <<>>, <<>>, <<>>, <<"U", "S", "A">> >>

\* _parse_address taking the whole of part 2 as the state
ParseAddressWholeState(raw) ==
  IF raw = <<>> THEN << <<>>, <<>>, <<>>, <<>>, <<"U", "S", "A">> >>
  ELSE LET parts == [i \in 1..Len(SplitOn(raw, ",")) |-> Strip(SplitOn(raw, ",")[i])]
       IN  IF Len(parts) >= 3 THEN << parts[1], parts[2], parts[3], <<>>, <<"U", "S", "A">> >>
           ELSE IF Len(parts) = 2 THEN << parts[1], parts[2], <<>>, <<>>, <<"U", "S", "A">> >>
           ELSE << raw, <<>>, <<>>, <<>>, <<"U", "S", "A">> >>

\* _parse_address(raw), as <<street, city, state, zipcode, country>>
ParseAddress(raw) ==
  IF raw = <<>> THEN << <<>>, <<>>, <<>>, <<>>, <<"U", "S", "A">> >>
  ELSE LET parts == [i \in 1..Len(SplitOn(raw, ",")) |-> Strip(SplitOn(raw, ",")[i])]
           st_zip == Split(Strip(parts[3]))
       IN  IF Len(parts) >= 3
           THEN << parts[1], parts[2],
                   IF st_zip # <<>> THEN st_zip[1] ELSE <<>>,
                   IF Len(st_zip) > 1 THEN st_zip[2] ELSE <<>>,
                   <<"U", "S", "A">> >>
           ELSE IF Len(parts) = 2 THEN << parts[1], parts[2], <<>>, <<>>, <<"U", "S", "A">> >>
           ELSE << raw, <<>>, <<>>, <<>>, <<"U", "S", "A">> >>

\* datetime.date.today().strftime("%m/%d/%Y")
Today == <<"0", "1", "/", "0", "5", "/", "2", "0", "2", "6">>

\* a or b, for texts
Or(a, b) == IF a # <<>> THEN a ELSE b

\* d1 after d1.update(d2)
RECURSIVE Update(_, _)
Update(d1, d2) ==
  IF d2 = <<>> THEN d1 ELSE Update(Put(d1, Head(d2)[1], Head(d2)[2]), Tail(d2))

\* (co_client or {}): co is <<>> for None and <<dict>> otherwise
OrEmpty(co) == IF co = <<>> THEN <<>> ELSE co[1]

\* the second-holder fields of fill_personal_app
PersonalCoFields(client, co, co_name, co_dob) ==
  LET addr == Get(client, <<"A", "d", "d", "r", "e", "s", "s">>, <<>>)
      a == ParseAddress(addr)
      n2 == SplitName(co_name)
      a2 == ParseAddress(Get(OrEmpty(co), <<"A", "d", "d", "r", "e", "s", "s">>, addr))
  IN  << <<<<"P", "I", "_", "F", "i", "r", "s", "t", "N", "a", "m", "e", "0", "2">>, n2[1]>>,
         <<<<"P", "I", "_", "M", "I", "0", "2">>, n2[2]>>,
         <<<<"P", "I", "_", "L", "a", "s", "t", "N", "a", "m", "e", "0", "2">>, n2[3]>>,
         <<<<"P", "I", "_", "D", "O", "B", "0", "2">>, co_dob>>,
         <<<<"P", "I", "_", "S", "S", "N", "0", "2">>, Get(OrEmpty(co), <<"S", "S", "N">>,
                            Get(OrEmpty(co), <<"S", "o", "c", "i", "a", "l", " ", "S", "e", "c", "u", "r", "i", "t", "y", " ", "N", "u", "m", "b", "e", "r">>, <<>>))>>,
         <<<<"P", "I", "_", "P", "r", "i", "m", "a", "r", "y", "M", "o", "b", "i", "l", "e", "P", "h", "o", "n", "e", "0", "2">>, Get(OrEmpty(co), <<"P", "h", "o", "n", "e">>,
                                           Get(OrEmpty(co), <<"M", "o", "b", "i", "l", "e", " ", "P", "h", "o", "n", "e">>, <<>>))>>,
         <<<<"P", "I", "_", "E", "m", "a", "i", "l", "0", "2">>, Get(OrEmpty(co), <<"E", "m", "a", "i", "l">>, <<>>)>>,
         <<<<"P", "I", "_", "P", "e", "r", "m", "A", "d", "d", "r", "e", "s", "s", "0", "2">>, Or(a2[1], a[1])>>,
         <<<<"P", "I", "_", "P", "e", "r", "m", "A", "d", "d", "r", "e", "s", "s", "C", "i", "t", "y", "0", "2">>, Or(a2[2], a[2])>>,
         <<<<"P", "I", "_", "P", "e", "r", "m", "A", "d", "d", "r", "e", "s", "s", "S", "t", "a", "t", "e", "0", "2">>, Or(a2[3], a[3])>>,
         <<<<"P", "I", "_", "P", "e", "r", "m", "A", "d", "d", "r", "e", "s", "s", "Z", "i", "p", "0", "2">>, Or(a2[4], a[4])>>,
         <<<<"P", "I", "_", "P", "e", "r", "m", "A", "d", "d", "r", "e", "s", "s", "C", "o", "u", "n", "t", "r", "y", "0", "2">>, <<"U", "S", "A">>>>,
         <<<<"P", "I", "_", "M", "a", "i", "l", "i", "n", "g", "A", "d", "d", "r", "e", "s", "s", "0", "2">>, Or(a2[1], a[1])>>,
         <<<<"P", "I", "_", "M", "a", "i", "l", "i", "n", "g", "A", "d", "d", "r", "e", "s", "s", "C", "i", "t", "y", "0", "2">>, Or(a2[2], a[2])>>,
         <<<<"P", "I", "_", "M", "a", "i", "l", "i", "n", "g", "A", "d", "d", "r", "e", "s", "s", "S", "t", "a", "t", "e", "0", "2">>, Or(a2[3], a[3])>>,
         <<<<"P", "I", "_", "M", "a", "i", "l", "i", "n", "g", "A", "d", "d", "r", "e", "s", "s", "Z", "i", "p", "0", "2">>, Or(a2[4], a[4])>>,
         <<<<"P", "I", "_", "M", "a", "i", "l", "i", "n", "g", "A", "d", "d", "r", "e", "s", "s", "C", "o", "u", "n", "t", "r", "y", "0", "2">>, <<"U", "S", "A">>>>,
         <<<<"A", "S", "_", "D", "a", "t", "e", "0", "4">>, Today>> >>

\* fields of fill_personal_app(client, co_client)
PersonalFields(client, co) ==
  LET n == SplitName(Get(client, <<"F", "u", "l", "l", " ", "N", "a", "m", "e">>, <<>>))
      a == ParseAddress(Get(client, <<"A", "d", "d", "r", "e", "s", "s">>, <<>>))
      fields ==
        << <<<<"P", "I", "_", "F", "i", "r", "s", "t", "N", "a", "m", "e">>, n[1]>>,
           <<<<"P", "I", "_", "M", "I">>, n[2]>>,
           <<<<"P", "I", "_", "L", "a", "s", "t", "N", "a", "m", "e">>, n[3]>>,
           <<<<"P", "I", "_", "D", "O", "B">>, Get(client, <<"D", "a", "t", "e", " ", "o", "f", " ", "B", "i", "r", "t", "h">>, <<>>)>>,
           <<<<"P", "I", "_", "S", "S", "N">>, Get(client, <<"S", "S", "N">>, Get(client, <<"S", "o", "c", "i", "a", "l", " ", "S", "e", "c", "u", "r", "i", "t", "y", " ", "N", "u", "m", "b", "e", "r">>, <<>>))>>,
           <<<<"P", "I", "_", "P", "r", "i", "m", "a", "r", "y", "M", "o", "b", "i", "l", "e", "P", "h", "o", "n", "e">>, Get(client, <<"P", "h", "o", "n", "e">>,
                                           Get(client, <<"M", "o", "b", "i", "l", "e", " ", "P", "h", "o", "n", "e">>, <<>>))>>,
           <<<<"P", "I", "_", "E", "m", "a", "i", "l">>, Get(client, <<"E", "m", "a", "i", "l">>, <<>>)>>,
           <<<<"P", "I", "_", "P", "e", "r", "m", "A", "d", "d", "r", "e", "s", "s">>, a[1]>>,
           <<<<"P", "I", "_", "P", "e", "r", "m", "A", "d", "d", "r", "e", "s", "s", "C", "i", "t", "y">>, a[2]>>,
           <<<<"P", "I", "_", "P", "e", "r", "m", "A", "d", "d", "r", "e", "s", "s", "S", "t", "a", "t", "e">>, a[3]>>,
           <<<<"P", "I", "_", "P", "e", "r", "m", "A", "d", "d", "r", "e", "s", "s", "Z", "i", "p">>, a[4]>>,
           <<<<"P", "I", "_", "P", "e", "r", "m", "A", "d", "d", "r", "e", "s", "s", "C", "o", "u", "n", "t", "r", "y">>, a[5]>>,
           <<<<"P", "I", "_", "M", "a", "i", "l", "i", "n", "g", "A", "d", "d", "r", "e", "s", "s">>, a[1]>>,
           <<<<"P", "I", "_", "M", "a", "i", "l", "i", "n", "g", "A", "d", "d", "r", "e", "s", "s", "C", "i", "t", "y">>, a[2]>>,
           <<<<"P", "I", "_", "M", "a", "i", "l", "i", "n", "g", "A", "d", "d", "r", "e", "s", "s", "S", "t", "a", "t", "e">>, a[3]>>,
           <<<<"P", "I", "_", "M", "a", "i", "l", "i", "n", "g", "A", "d", "d", "r", "e", "s", "s", "Z", "i", "p">>, a[4]>>,
           <<<<"P", "I", "_", "M", "a", "i", "l", "i", "n", "g", "A", "d", "d", "r", "e", "s", "s", "C", "o", "u", "n", "t", "r", "y">>, a[5]>>,
           <<<<"P", "I", "_", "E", "I", "A", "E", "m", "p", "l", "o", "y", "e", "r", "N", "a", "m", "e">>, Get(client, <<"E", "m", "p", "l", "o", "y", "e", "r">>,
                                        Get(client, <<"E", "m", "p", "l", "o", "y", "e", "r", " ", "N", "a", "m", "e">>, <<>>))>>,
           <<<<"A", "S", "_", "D", "a", "t", "e", "0", "3">>, Today>> >>
      given == OrEmpty(co) # <<>>
      name1 == IF given THEN Get(co[1], <<"F", "u", "l", "l", " ", "N", "a", "m", "e">>, <<>>) ELSE <<>>
      dob1 == IF given THEN Get(co[1], <<"D", "a", "t", "e", " ", "o", "f", " ", "B", "i", "r", "t", "h">>, <<>>) ELSE <<>>
      co_name == IF name1 # <<>> THEN name1 ELSE Get(client, <<"C", "o", "-", "A", "c", "c", "o", "u", "n", "t", " ", "H", "o", "l", "d", "e", "r", " ", "N", "a", "m", "e">>, <<>>)
      co_dob == IF name1 # <<>> THEN dob1 ELSE Get(client, <<"C", "o", "-", "A", "c", "c", "o", "u", "n", "t", " ", "H", "o", "l", "d", "e", "r", " ", "D", "O", "B">>, <<>>)
  IN  IF co_name # <<>>
      THEN Update(fields, PersonalCoFields(client, co, co_name, co_dob))
      ELSE fields

\* the second-trustee fields of fill_trust_app
TrustCoFields(client, trustee2) ==
  LET addr == Get(client, <<"A", "d", "d", "r", "e", "s", "s">>, <<>>)
      a == ParseAddress(addr)
      n2 == SplitName(Get(trustee2, <<"F", "u", "l", "l", " ", "N", "a", "m", "e">>, <<>>))
      a2 == ParseAddress(Get(trustee2, <<"A", "d", "d", "r", "e", "s", "s">>, addr))
  IN  << <<<<"P", "I", "_", "F", "i", "r", "s", "t", "N", "a", "m", "e", "0", "2">>, n2[1]>>,
         <<<<"P", "I", "_", "M", "I", "0", "2">>, n2[2]>>,
         <<<<"P", "I", "_", "L", "a", "s", "t", "N", "a", "m", "e", "0", "2">>, n2[3]>>,
         <<<<"P", "I", "_", "D", "O", "B", "0", "2">>, Get(trustee2, <<"D", "a", "t", "e", " ", "o", "f", " ", "B", "i", "r", "t", "h">>, <<>>)>>,
         <<<<"P", "I", "_", "S", "S", "N", "0", "2">>, Get(trustee2, <<"S", "S", "N">>, <<>>)>>,
         <<<<"P", "I", "_", "E", "m", "a", "i", "l", "0", "2">>, Get(trustee2, <<"E", "m", "a", "i", "l">>, <<>>)>>,
         <<<<"P", "I", "_", "P", "r", "i", "m", "a", "r", "y", "M", "o", "b", "i", "l", "e", "P", "h", "o", "n", "e", "0", "2">>, Get(trustee2, <<"P", "h", "o", "n", "e">>, <<>>)>>,
         <<<<"P", "I", "_", "P", "e", "r", "m", "A", "d", "d", "r", "e", "s", "s", "0", "2">>, Or(a2[1], a[1])>>,
         <<<<"P", "I", "_", "P", "e", "r", "m", "A", "d", "d", "r", "e", "s", "s", "C", "i", "t", "y", "0", "2">>, Or(a2[2], a[2])>>,
         <<<<"P", "I", "_", "P", "e", "r", "m", "A", "d", "d", "r", "e", "s", "s", "S", "t", "a", "t", "e", "0", "2">>, Or(a2[3], a[3])>>,
         <<<<"P", "I", "_", "P", "e", "r", "m", "A", "d", "d", "r", "e", "s", "s", "Z", "i", "p", "0", "2">>, Or(a2[4], a[4])>>,
         <<<<"P", "I", "_", "P", "e", "r", "m", "A", "d", "d", "r", "e", "s", "s", "C", "o", "u", "n", "t", "r", "y", "0", "2">>, <<"U", "S", "A">>>>,
         <<<<"C", "T", "_", "D", "a", "t", "e", "0", "2">>, Today>> >>

\* fields of fill_trust_app(client, trustee2)
TrustFields(client, co) ==
  LET n == SplitName(Get(client, <<"F", "u", "l", "l", " ", "N", "a", "m", "e">>, <<>>))
      a == ParseAddress(Get(client, <<"A", "d", "d", "r", "e", "s", "s">>, <<>>))
      fields ==
        << <<<<"A", "S", "U", "_", "N", "a", "m", "e", "o", "f", "T", "r", "u", "s", "t">>, Get(client, <<"T", "r", "u", "s", "t", " ", "N", "a", "m", "e">>,
                                     Get(client, <<"E", "n", "t", "i", "t", "y", " ", "N", "a", "m", "e">>,
                                         Get(client, <<"F", "u", "l", "l", " ", "N", "a", "m", "e">>, <<>>)))>>,
           <<<<"A", "S", "U", "_", "S", "S", "T", "I", "N">>, Get(client, <<"T", "a", "x", " ", "I", "D">>,
                               Get(client, <<"E", "I", "N">>, Get(client, <<"S", "S", "N">>, <<>>)))>>,
           <<<<"A", "S", "U", "_", "D", "a", "t", "e", "O", "f", "T", "r", "u", "s", "t">>, Get(client, <<"T", "r", "u", "s", "t", " ", "D", "a", "t", "e">>,
                                     Get(client, <<"D", "a", "t", "e", " ", "o", "f", " ", "T", "r", "u", "s", "t">>, <<>>))>>,
           <<<<"A", "S", "U", "_", "S", "t", "a", "t", "e", "W", "h", "e", "r", "e", "O", "r", "g", "a", "n", "i", "z", "e", "d">>, Or(Get(client, <<"S", "t", "a", "t", "e">>, <<>>), a[3])>>,
           <<<<"A", "S", "U", "_", "P", "e", "r", "m", "a", "n", "e", "n", "t", "A", "d", "d", "r", "e", "s", "s">>, a[1]>>,
           <<<<"A", "S", "U", "_", "P", "e", "r", "m", "a", "n", "e", "n", "t", "A", "d", "d", "r", "e", "s", "s", "C", "i", "t", "y">>, a[2]>>,
           <<<<"A", "S", "U", "_", "P", "e", "r", "m", "a", "n", "e", "n", "t", "A", "d", "d", "r", "e", "s", "s", "S", "t", "a", "t", "e">>, a[3]>>,
           <<<<"A", "S", "U", "_", "P", "e", "r", "m", "a", "n", "e", "n", "t", "A", "d", "d", "r", "e", "s", "s", "Z", "i", "p">>, a[4]>>,
           <<<<"A", "S", "U", "_", "P", "e", "r", "m", "a", "n", "e", "n", "t", "A", "d", "d", "r", "e", "s", "s", "C", "o", "u", "n", "t", "r", "y">>, a[5]>>,
           <<<<"P", "I", "_", "F", "i", "r", "s", "t", "N", "a", "m", "e">>, n[1]>>,
           <<<<"P", "I", "_", "M", "I">>, n[2]>>,
           <<<<"P", "I", "_", "L", "a", "s", "t", "N", "a", "m", "e">>, n[3]>>,
           <<<<"P", "I", "_", "D", "O", "B">>, Get(client, <<"D", "a", "t", "e", " ", "o", "f", " ", "B", "i", "r", "t", "h">>, <<>>)>>,
           <<<<"P", "I", "_", "S", "S", "N">>, Get(client, <<"S", "S", "N">>, <<>>)>>,
           <<<<"P", "I", "_", "E", "m", "a", "i", "l">>, Get(client, <<"E", "m", "a", "i", "l">>, <<>>)>>,
           <<<<"P", "I", "_", "P", "r", "i", "m", "a", "r", "y", "M", "o", "b", "i", "l", "e", "P", "h", "o", "n", "e">>, Get(client, <<"P", "h", "o", "n", "e">>, <<>>)>>,
           <<<<"P", "I", "_", "P", "e", "r", "m", "A", "d", "d", "r", "e", "s", "s">>, a[1]>>,
           <<<<"P", "I", "_", "P", "e", "r", "m", "A", "d", "d", "r", "e", "s", "s", "C", "i", "t", "y">>, a[2]>>,
           <<<<"P", "I", "_", "P", "e", "r", "m", "A", "d", "d", "r", "e", "s", "s", "S", "t", "a", "t", "e">>, a[3]>>,
           <<<<"P", "I", "_", "P", "e", "r", "m", "A", "d", "d", "r", "e", "s", "s", "Z", "i", "p">>, a[4]>>,
           <<<<"P", "I", "_", "P", "e", "r", "m", "A", "d", "d", "r", "e", "s", "s", "C", "o", "u", "n", "t", "r", "y">>, a[5]>>,
           <<<<"C", "T", "_", "D", "a", "t", "e", "0", "1">>, Today>> >>
  IN  IF OrEmpty(co) # <<>> THEN Update(fields, TrustCoFields(client, co[1])) ELSE fields

\* fields of fill_add_remove_advisor(client), the keyword arguments at their defaults
AdvisorFields(client) ==
  LET name == Get(client, <<"F", "u", "l", "l", " ", "N", "a", "m", "e">>, <<>>)
      n == SplitName(name)
  IN  << <<<<"A", "I", "_", "F", "i", "r", "s", "t">>, n[1]>>,
         <<<<"A", "I", "_", "M", "I">>, n[2]>>,
         <<<<"A", "I", "_", "L", "a", "s", "t">>, n[3]>>,
         <<<<"D", "A", "_", "A", "d", "v", "i", "s", "o", "r", "N", "a", "m", "e">>, <<>> >>,
         <<<<"D", "A", "_", "G", "N", "u", "m", "b", "e", "r">>, <<>> >>,
         <<<<"D", "A", "_", "D", "T", "C", "N", "u", "m", "b", "e", "r">>, <<>> >>,
         <<<<"D", "A", "_", "P", "r", "i", "c", "i", "n", "g", "C", "o", "d", "e">>, <<>> >>,
         <<<<"S", "D", "_", "P", "r", "i", "n", "t", "A", "c", "c", "o", "u", "n", "t", "O", "w", "n", "e", "r">>, name>>,
         <<<<"S", "D", "_", "D", "a", "t", "e">>, Today>> >>

\* fields of fill_journal_request(client), the keyword arguments at their defaults
JournalFields(client) ==
  LET name == Get(client, <<"F", "u", "l", "l", " ", "N", "a", "m", "e">>, <<>>)
      n == SplitName(name)
  IN  << <<<<"A", "O", "_", "F", "i", "r", "s", "t">>, n[1]>>,
         <<<<"A", "O", "_", "M", "I">>, n[2]>>,
         <<<<"A", "O", "_", "L", "a", "s", "t">>, n[3]>>,
         <<<<"A", "O", "_", "S", "o", "c", "i", "a", "l", "S", "e", "c", "u", "r", "i", "t", "y", "N", "u", "m", "b", "e", "r">>, Get(client, <<"S", "S", "N">>,
                                           Get(client, <<"S", "o", "c", "i", "a", "l", " ", "S", "e", "c", "u", "r", "i", "t", "y", " ", "N", "u", "m", "b", "e", "r">>, <<>>))>>,
         <<<<"J", "R", "_", "F", "i", "r", "m", "N", "a", "m", "e">>, <<"I", "W", "S">>>>,
         <<<<"J", "R", "_", "G", "N", "u", "m", "b", "e", "r">>, <<>> >>,
         <<<<"R", "A", "I", "_", "O", "w", "n", "e", "r", "N", "a", "m", "e">>, Or(<<>>, name)>>,
         <<<<"R", "A", "I", "_", "A", "c", "c", "o", "u", "n", "t">>, <<>> >>,
         <<<<"S", "a", "D", "_", "P", "r", "i", "n", "t", "A", "c", "c", "o", "u", "n", "t", "O", "w", "n", "e", "r", "N", "a", "m", "e">>, name>>,
         <<<<"S", "D", "_", "D", "a", "t", "e">>, Today>> >>

\* the form keys fill_form dispatches on
FormKeys == {FORM_CATALOG[i].key : i \in 1..Len(FORM_CATALOG)}

\* the file and the fields fill_form hands to _fill
FormFile(form_key) ==
  IF form_key = <<"I", "W", "S", "P", "e", "r", "s", "o", "n", "a", "l", "A", "p", "p">> THEN _PERSONAL_PDF
  ELSE IF form_key = <<"I", "W", "S", "T", "r", "u", "s", "t", "A", "p", "p">> THEN _TRUST_PDF
  ELSE IF form_key = <<"A", "d", "d", "R", "e", "m", "o", "v", "e", "A", "d", "v", "i", "s", "o", "r">> THEN _ADVISOR_PDF
  ELSE _JOURNAL_PDF

FormFields(form_key, client, co) ==
  IF form_key = <<"I", "W", "S", "P", "e", "r", "s", "o", "n", "a", "l", "A", "p", "p">> THEN PersonalFields(client, co)
  ELSE IF form_key = <<"I", "W", "S", "T", "r", "u", "s", "t", "A", "p", "p">> THEN TrustFields(client, co)
  ELSE IF form_key = <<"A", "d", "d", "R", "e", "m", "o", "v", "e", "A", "d", "v", "i", "s", "o", "r">> THEN AdvisorFields(client)
  ELSE JournalFields(client)

\* household records as the normalizer and the composer produce them
NormalizedClients ==
  LET ann == NormalizeFields(<< <<<<"F", "i", "r", "s", "t", " ", "N", "a", "m", "e">>, <<"A", "n", "n">>>>, <<<<"L", "a", "s", "t", " ", "N", "a", "m", "e">>, <<"L", "e", "e">>>>,
                                <<<<"A", "d", "d", "r", "e", "s", "s">>, <<"1", " ", "M", "a", "i", "n", " ", "S", "t", ",", " ", "T", "r", "o", "y", ",", " ", "I", "L", " ", "6", "2", "7", "0", "1">>>>,
                                <<<<"D", "O", "B">>, <<"1", "9", "9", "0", "-", "0", "1", "-", "0", "2">>>>, <<<<"S", "S", "N">>, <<"4", "7", "2", "1">>>>,
                                <<<<"E", "m", "a", "i", "l">>, <<"a", "@", "x", ".", "i", "o">>>> >>)
      bob == NormalizeFields(<< <<<<"F", "u", "l", "l", " ", "N", "a", "m", "e">>, <<"B", "o", "b", " ", "C", " ", "R", "a", "y">>>>, <<<<"D", "O", "B">>, <<"1", "9", "9", "1", "-", "0", "3", "-", "0", "4">>>> >>)
  IN  { <<>>,
        NormalizeFields(<< <<<<"F", "i", "r", "s", "t", " ", "N", "a", "m", "e">>, <<"R", "o", "b", "e", "r", "t">>>>, <<<<"L", "a", "s", "t", " ", "N", "a", "m", "e">>, <<"T", "h", "o", "r", "n", "t", "o", "n">>>> >>),
        NormalizeFields(<< <<<<"F", "u", "l", "l", " ", "N", "a", "m", "e">>, <<"A", "n", "n", " ", "B", " ", "L", "e", "e">>>>, <<<<"A", "d", "d", "r", "e", "s", "s">>, <<"1", " ", "M", "a", "i", "n", " ", "S", "t", ",", " ", "T", "r", "o", "y">>>>,
                           <<<<"P", "h", "o", "n", "e">>, <<"5", "5", "5", "-", "0", "1", "9", "2">>>> >>),
        ann,
        ComposeHousehold(<<ann, bob>>) }

\* records handed to fill_form by a direct caller of pdf_filler
DirectClients ==
  { << <<<<"F", "u", "l", "l", " ", "N", "a", "m", "e">>, <<"A", "n", "n", " ", "B", " ", "L", "e", "e">>>>, <<<<"A", "d", "d", "r", "e", "s", "s">>, <<"1", " ", "M", "a", "i", "n", " ", "S", "t">>>>,
       <<<<"E", "m", "p", "l", "o", "y", "e", "r", " ", "N", "a", "m", "e">>, <<"A", "c", "m", "e">>>> >>,
    << <<<<"F", "u", "l", "l", " ", "N", "a", "m", "e">>, <<"M", "a", "d", "o", "n", "n", "a">>>>, <<<<"T", "r", "u", "s", "t", " ", "N", "a", "m", "e">>, <<"L", "e", "e", " ", "T", "r", "u", "s", "t">>>>,
       <<<<"S", "t", "a", "t", "e">>, <<"I", "L">>>> >> }

\* free-text addresses of 1, 2, 3 and 4 comma-separated parts
AddressTexts ==
  { <<"1", "8", "4", "7", " ", "L", "a", "k", "e", "s", "h", "i", "r", "e", " ", "D", "r", ",", " ", "N", "a", "p", "e", "r", "v", "i", "l", "l", "e", ",", " ", "I", "L", " ", "6", "0", "5", "4", "0">>, <<"1", " ", "M", "a", "i", "n", " ", "S", "t", ",", " ", "A", "p", "t", " ", "2", ",", " ", "T", "r", "o", "y", ",", " ", "I", "L", " ", "6", "2", "7", "0", "1">>,
    <<"2", " ", "O", "a", "k", " ", "A", "v", "e", ",", " ", "P", "e", "k", "i", "n", ",", " ", "I", "L">>, <<"2", " ", "O", "a", "k", " ", "A", "v", "e", ",", " ", "P", "e", "k", "i", "n", ",", " ">>, <<"9", " ", "E", "l", "m", " ", "R", "d", " ", ",", " ", "T", "r", "o", "y">>, <<" ", "1", " ", "M", "a", "i", "n", " ", "S", "t", " ">> }

\* records of direct callers that differ in the address only
AddressClients == { << <<<<"F", "u", "l", "l", " ", "N", "a", "m", "e">>, <<"A", "n", "n", " ", "L", "e", "e">>>>, <<<<"A", "d", "d", "r", "e", "s", "s">>, a>> >> : a \in AddressTexts }

MapClients == NormalizedClients \cup DirectClients \cup AddressClients

\* co_client: None, the record built from holders[1], and records of direct callers
MapCoClients ==
  { <<>>,
    << << <<<<"F", "u", "l", "l", " ", "N", "a", "m", "e">>, <<"B", "o", "b", " ", "R", "a", "y">>>> >> >>,
    << << <<<<"F", "u", "l", "l", " ", "N", "a", "m", "e">>, <<"C", "a", "r", "a", " ", "D", " ", "L", "e", "e">>>>, <<<<"A", "d", "d", "r", "e", "s", "s">>, <<"2", " ", "O", "a", "k", " ", "A", "v", "e", ",", " ", "P", "e", "k", "i", "n", ",", " ", "I", "L">>>>,
          <<<<"D", "a", "t", "e", " ", "o", "f", " ", "B", "i", "r", "t", "h">>, <<"1", "9", "9", "2", "-", "0", "5", "-", "0", "6">>>> >> >>,
    << <<>> >> }

MapInit ==
  /\ mp_pc = "call"
  /\ mp_form \in FormKeys \cup {<<"W", "9">>}
  /\ mp_client \in MapClients
  /\ mp_co \in MapCoClients
  /\ mp_fields = <<>>
  /\ NormIdle
  /\ IntakeIdle
  /\ CtxIdle
  /\ RenderIdle
  /\ BatchIdle
  /\ RaceIdle

\* fill_form(form_key, client, co_client) for a known form key: the fill_*
\* function builds the fields and calls _fill
FillForm ==
  /\ mp_pc = "call"
  /\ mp_form \in FormKeys
  /\ mp_fields' = FormFields(mp_form, mp_client, mp_co)
  /\ mp_pc' = "filling"
  /\ rd_pc' = "call"
  /\ rd_file' = FormFile(mp_form)
  /\ rd_fields' = mp_fields'
  /\ \E present \in BOOLEAN :
       /\ rd_template' = present
       /\ rd_widgets' = IF present THEN TemplateWidgets ELSE <<>>
  /\ UNCHANGED <<mp_form, mp_client, mp_co, rd_display, rd_idx, rd_y, rd_pages, rd_result>>
  /\ UNCHANGED <<normVars, intakeVars, ctxVars, batchVars, raceVars>>

\* fill_form with an unknown form key raises ValueError
FillFormUnknown ==
  /\ mp_pc = "call"
  /\ mp_form \notin FormKeys
  /\ mp_pc' = "raised"
  /\ UNCHANGED <<mp_form, mp_client, mp_co, mp_fields>>
  /\ UNCHANGED notMap

\* _fill returns and fill_form returns its bytes
FillFormReturn ==
  /\ mp_pc = "filling"
  /\ rd_pc = "done"
  /\ mp_pc' = "filled"
  /\ UNCHANGED <<mp_form, mp_client, mp_co, mp_fields>>
  /\ UNCHANGED notMap

MapNext == FillForm \/ FillFormUnknown \/ FillFormReturn \/ RenderNext

SpecMap == MapInit /\ [][MapNext]_vars

\* the target keys of the holder's first and last name
FirstNameKey(form_key) ==
  IF form_key \in {<<"I", "W", "S", "P", "e", "r", "s", "o", "n", "a", "l", "A", "p", "p">>, <<"I", "W", "S", "T", "r", "u", "s", "t", "A", "p", "p">>} THEN <<"P", "I", "_", "F", "i", "r", "s", "t", "N", "a", "m", "e">>
  ELSE IF form_key = <<"A", "d", "d", "R", "e", "m", "o", "v", "e", "A", "d", "v", "i", "s", "o", "r">> THEN <<"A", "I", "_", "F", "i", "r", "s", "t">>
  ELSE <<"A", "O", "_", "F", "i", "r", "s", "t">>

LastNameKey(form_key) ==
  IF form_key \in {<<"I", "W", "S", "P", "e", "r", "s", "o", "n", "a", "l", "A", "p", "p">>, <<"I", "W", "S", "T", "r", "u", "s", "t", "A", "p", "p">>} THEN <<"P", "I", "_", "L", "a", "s", "t", "N", "a", "m", "e">>
  ELSE IF form_key = <<"A", "d", "d", "R", "e", "m", "o", "v", "e", "A", "d", "v", "i", "s", "o", "r">> THEN <<"A", "I", "_", "L", "a", "s", "t">>
  ELSE <<"A", "O", "_", "L", "a", "s", "t">>

\* C5: for a household record of the normalizer with a non-empty First Name and
\* Last Name and no Full Name key, the target map of each document type carries
\* that first and last name in its first-name and last-name target keys.
C5_NamesCarried ==
  (/\ mp_pc \in {"filling", "filled"}
   /\ mp_client \in NormalizedClients
   /\ Get(mp_client, <<"F", "i", "r", "s", "t", " ", "N", "a", "m", "e">>, <<>>) # <<>>
   /\ Get(mp_client, <<"L", "a", "s", "t", " ", "N", "a", "m", "e">>, <<>>) # <<>>
   /\ ~Has(mp_client, <<"F", "u", "l", "l", " ", "N", "a", "m", "e">>))
    => /\ Get(mp_fields, FirstNameKey(mp_form), <<>>) = Get(mp_client, <<"F", "i", "r", "s", "t", " ", "N", "a", "m", "e">>, <<>>)
       /\ Get(mp_fields, LastNameKey(mp_form), <<>>) = Get(mp_client, <<"L", "a", "s", "t", " ", "N", "a", "m", "e">>, <<>>)

(***************************************************************************)
(* The rules of the normaliser, label by label.                            *)
(***************************************************************************)
\* some condition of the if/elif chain of _normalize_fields holds of kl, so the
\* final else (passthrough) is not reached
MatchesRule(kl) ==
  \/ IsFullNameLabel(kl)
  \/ kl \in {<<"f", "i", "r", "s", "t", " ", "n", "a", "m", "e">>, <<"f", "i", "r", "s", "t", "n", "a", "m", "e">>, <<"f", "i", "r", "s", "t">>, <<"l", "a", "s", "t", " ", "n", "a", "m", "e">>, <<"l", "a", "s", "t", "n", "a", "m", "e">>, <<"l", "a", "s", "t">>}
  \/ kl \in {<<"d", "o", "b">>, <<"d", "a", "t", "e", " ", "o", "f", " ", "b", "i", "r", "t", "h">>, <<"b", "i", "r", "t", "h", "d", "a", "t", "e">>, <<"b", "i", "r", "t", "h", " ", "d", "a", "t", "e">>}
  \/ kl \in {<<"a", "d", "d", "r", "e", "s", "s">>, <<"c", "i", "t", "y">>, <<"s", "t", "a", "t", "e">>, <<"z", "i", "p">>, <<"z", "i", "p", " ", "c", "o", "d", "e">>, <<"p", "o", "s", "t", "a", "l", " ", "c", "o", "d", "e">>,
             <<"p", "h", "o", "n", "e">>, <<"e", "m", "a", "i", "l">>}
  \/ Contains(kl, <<"a", "n", "n", "u", "a", "l", " ", "i", "n", "c", "o", "m", "e">>) \/ Contains(kl, <<"n", "e", "t", " ", "w", "o", "r", "t", "h">>) \/ Contains(kl, <<"l", "i", "q", "u", "i", "d">>)
  \/ kl \in {<<"e", "m", "p", "l", "o", "y", "e", "r">>, <<"c", "o", "m", "p", "a", "n", "y">>, <<"f", "i", "r", "m">>}
  \/ Contains(kl, <<"o", "c", "c", "u", "p", "a", "t", "i", "o", "n">>) \/ Contains(kl, <<"t", "i", "t", "l", "e">>) \/ Contains(kl, <<"j", "o", "b", " ", "t", "i", "t", "l", "e">>)
  \/ IsObjectiveLabel(kl)
  \/ IsRiskToleranceLabel(kl)
  \/ Contains(kl, <<"t", "i", "m", "e", " ", "h", "o", "r", "i", "z", "o", "n">>) \/ Contains(kl, <<"h", "o", "r", "i", "z", "o", "n">>)
  \/ Contains(kl, <<"r", "e", "f", "e", "r", "r", "a", "l">>) \/ Contains(kl, <<"l", "e", "a", "d", " ", "s", "o", "u", "r", "c", "e">>)
  \/ Contains(kl, <<"r", "e", "f", "e", "r", "r", "e", "d">>) \/ Contains(kl, <<"s", "o", "u", "r", "c", "e">>)
  \/ Contains(kl, <<"a", "d", "v", "i", "s", "o", "r">>)
  \/ Contains(kl, <<"n", "o", "t", "e">>) \/ Contains(kl, <<"a", "c", "c", "o", "u", "n", "t">>)
  \/ Contains(kl, <<"w", "a", "s">>)
  \/ Contains(kl, <<"f", "e", "e">>)

\* kl of the label at position i of nf_raw
RawLabel(i) == Lower(Strip(nf_raw[i][1]))

\* C11: every label of the raw record that matches no rule is a key of the
\* normalized record, under its trimmed label, holding its trimmed value.
C11_PassthroughKept ==
  nf_pc # "raw"
    => \A i \in 1..Len(nf_raw) :
         ~MatchesRule(RawLabel(i))
           => /\ Has(nf_out, Strip(nf_raw[i][1]))
              /\ Get(nf_out, Strip(nf_raw[i][1]), <<>>) = Strip(nf_raw[i][2])

\* nf_raw holds one label, a full-name label, and has been normalized
FullNameAlone ==
  /\ nf_pc # "raw"
  /\ Len(nf_raw) = 1
  /\ IsFullNameLabel(RawLabel(1))

\* C12: the full-name rule, applied to a value of exactly 2 tokens, writes First
\* Name and Last Name and no Middle Initial; of exactly 3 tokens, First Name,
\* Middle Initial (the second token) and Last Name; of exactly 1 token, First
\* Name only.
C12_FullNameSplit ==
  FullNameAlone
    => LET parts == Split(nf_raw[1][2])
       IN  /\ Len(parts) = 1 => nf_out = << <<<<"F", "i", "r", "s", "t", " ", "N", "a", "m", "e">>, parts[1]>> >>
           /\ Len(parts) = 2
                => nf_out = << <<<<"F", "i", "r", "s", "t", " ", "N", "a", "m", "e">>, parts[1]>>, <<<<"L", "a", "s", "t", " ", "N", "a", "m", "e">>, parts[2]>> >>
           /\ Len(parts) = 3
                => nf_out = << <<<<"F", "i", "r", "s", "t", " ", "N", "a", "m", "e">>, parts[1]>>, <<<<"L", "a", "s", "t", " ", "N", "a", "m", "e">>, parts[3]>>,
                               <<<<"M", "i", "d", "d", "l", "e", " ", "I", "n", "i", "t", "i", "a", "l">>, parts[2]>> >>

\* a three-token name with a middle token of several letters has been split
C12_Witness ==
  /\ FullNameAlone
  /\ Len(Split(nf_raw[1][2])) = 3
  /\ Len(Get(nf_out, <<"M", "i", "d", "d", "l", "e", " ", "I", "n", "i", "t", "i", "a", "l">>, <<>>)) > 1

\* C14: _split_name returns, for every full-name string, the first name, middle
\* initial and last name the normalizer's full-name rule writes (absent key =
\* empty).
C14_SameSplit ==
  FullNameAlone
    => SplitName(nf_raw[1][2])
         = << Get(nf_out, <<"F", "i", "r", "s", "t", " ", "N", "a", "m", "e">>, <<>>), Get(nf_out, <<"M", "i", "d", "d", "l", "e", " ", "I", "n", "i", "t", "i", "a", "l">>, <<>>),
              Get(nf_out, <<"L", "a", "s", "t", " ", "N", "a", "m", "e">>, <<>>) >>

\* variants of a label that differ in letter case or surrounding whitespace
LabelVariants(label) ==
  { Lower(label), Upper(label), Strip(label), <<" ", " ">> \o label \o <<" ", "\t">> }

\* the part of s before its first space, s itself when it holds none
BeforeFirstSpace(s) ==
  IF \E i \in 1..Len(s) : s[i] = " "
  THEN SubSeq(s, 1, (CHOOSE i \in 1..Len(s) : s[i] = " " /\ \A j \in 1..(i - 1) : s[j] # " ") - 1)
  ELSE s

\* the positions of nf_raw whose label the date-of-birth rule classifies
DateLabelsOfRaw ==
  {i \in 1..Len(nf_raw) :
     RawLabel(i) \in {<<"d", "o", "b">>, <<"d", "a", "t", "e", " ", "o", "f", " ", "b", "i", "r", "t", "h">>, <<"b", "i", "r", "t", "h", "d", "a", "t", "e">>, <<"b", "i", "r", "t", "h", " ", "d", "a", "t", "e">>}}

\* C20: a label matched by a rule and every variant of it in letter case or
\* surrounding whitespace normalize, with the same value, to the same record
\* (the same canonical keys), and Date of Birth holds the part of the trimmed
\* value before its first space.
C20_LabelInvariant ==
  nf_pc # "raw"
    => /\ (Len(nf_raw) = 1 /\ MatchesRule(RawLabel(1)))
            => \A x \in LabelVariants(nf_raw[1][1]) :
                 NormalizeFields(<< <<x, nf_raw[1][2]>> >>) = nf_out
       /\ DateLabelsOfRaw # {}
            => LET last == CHOOSE i \in DateLabelsOfRaw : \A j \in DateLabelsOfRaw : j <= i
               IN  Get(nf_out, <<"D", "a", "t", "e", " ", "o", "f", " ", "B", "i", "r", "t", "h">>, <<>>)
                     = BeforeFirstSpace(Strip(nf_raw[last][2]))

\* " Date of Birth " with a time component has been normalized
C20_Witness ==
  /\ nf_pc # "raw"
  /\ \E i \in 1..Len(nf_raw) :
       /\ nf_raw[i][1] = <<" ", "D", "a", "t", "e", " ", "o", "f", " ", "B", "i", "r", "t", "h", " ">>
       /\ Contains(Strip(nf_raw[i][2]), <<" ">>)
  /\ Get(nf_out, <<"D", "a", "t", "e", " ", "o", "f", " ", "B", "i", "r", "t", "h">>, <<>>) = <<"1", "9", "9", "0", "-", "0", "1", "-", "0", "2">>

\* the address of the household record handed to the mapper
ClientAddress == Get(mp_client, <<"A", "d", "d", "r", "e", "s", "s">>, <<>>)

\* the street, city, state and ZIP target keys of the primary holder
AddressTargets ==
  << Get(mp_fields, <<"P", "I", "_", "P", "e", "r", "m", "A", "d", "d", "r", "e", "s", "s">>, <<>>), Get(mp_fields, <<"P", "I", "_", "P", "e", "r", "m", "A", "d", "d", "r", "e", "s", "s", "C", "i", "t", "y">>, <<>>),
     Get(mp_fields, <<"P", "I", "_", "P", "e", "r", "m", "A", "d", "d", "r", "e", "s", "s", "S", "t", "a", "t", "e">>, <<>>), Get(mp_fields, <<"P", "I", "_", "P", "e", "r", "m", "A", "d", "d", "r", "e", "s", "s", "Z", "i", "p">>, <<>>) >>

\* the i-th whitespace token of s, empty when s has fewer tokens
Token(s, i) == IF Len(Split(s)) >= i THEN Split(s)[i] ELSE <<>>

\* C13: the address is split on commas; with 3 or more parts the street is part
\* 0, the city part 1, the state the first whitespace token of part 2 and the
\* ZIP its second token; with 2 parts only street and city are set; with 1 part
\* the entire string is the street; "1847 Lakeshire Dr, Naperville, IL 60540"
\* gives "1847 Lakeshire Dr", "Naperville", "IL", "60540".
C13_AddressParts ==
  (mp_pc \in {"filling", "filled"} /\ mp_form \in {<<"I", "W", "S", "P", "e", "r", "s", "o", "n", "a", "l", "A", "p", "p">>, <<"I", "W", "S", "T", "r", "u", "s", "t", "A", "p", "p">>})
    => LET parts == SplitOn(ClientAddress, ",")
       IN  /\ Len(parts) >= 3
                => AddressTargets = << Strip(parts[1]), Strip(parts[2]),
                                       Token(parts[3], 1), Token(parts[3], 2) >>
           /\ Len(parts) = 2
                => AddressTargets = << Strip(parts[1]), Strip(parts[2]), <<>>, <<>> >>
           /\ Len(parts) = 1
                => AddressTargets = << ClientAddress, <<>>, <<>>, <<>> >>
           /\ ClientAddress = <<"1", "8", "4", "7", " ", "L", "a", "k", "e", "s", "h", "i", "r", "e", " ", "D", "r", ",", " ", "N", "a", "p", "e", "r", "v", "i", "l", "l", "e", ",", " ", "I", "L", " ", "6", "0", "5", "4", "0">>
                => AddressTargets = << <<"1", "8", "4", "7", " ", "L", "a", "k", "e", "s", "h", "i", "r", "e", " ", "D", "r">>, <<"N", "a", "p", "e", "r", "v", "i", "l", "l", "e">>, <<"I", "L">>, <<"6", "0", "5", "4", "0">> >>

\* the sample address has been decomposed into the target keys
C13_Witness ==
  /\ mp_pc = "filled"
  /\ ClientAddress = <<"1", "8", "4", "7", " ", "L", "a", "k", "e", "s", "h", "i", "r", "e", " ", "D", "r", ",", " ", "N", "a", "p", "e", "r", "v", "i", "l", "l", "e", ",", " ", "I", "L", " ", "6", "0", "5", "4", "0">>
  /\ Get(mp_fields, <<"P", "I", "_", "P", "e", "r", "m", "A", "d", "d", "r", "e", "s", "s", "Z", "i", "p">>, <<>>) = <<"6", "0", "5", "4", "0">>

(***************************************************************************)
(* The source values of the target keys.                                   *)
(***************************************************************************)
\* the keys of the household record ("client") and of the second-party record
\* ("co") that the fill_* function of form_key reads for the target key t; empty
\* for a target key that reads neither record
Sources(form_key, t) ==
  LET personal == form_key = <<"I", "W", "S", "P", "e", "r", "s", "o", "n", "a", "l", "A", "p", "p">>
      Only(S) == IF personal THEN S ELSE {}
  IN  IF t \in { <<"P", "I", "_", "F", "i", "r", "s", "t", "N", "a", "m", "e">>, <<"P", "I", "_", "M", "I">>, <<"P", "I", "_", "L", "a", "s", "t", "N", "a", "m", "e">>, <<"A", "I", "_", "F", "i", "r", "s", "t">>, <<"A", "I", "_", "M", "I">>, <<"A", "I", "_", "L", "a", "s", "t">>,
                 <<"A", "O", "_", "F", "i", "r", "s", "t">>, <<"A", "O", "_", "M", "I">>, <<"A", "O", "_", "L", "a", "s", "t">>, <<"S", "D", "_", "P", "r", "i", "n", "t", "A", "c", "c", "o", "u", "n", "t", "O", "w", "n", "e", "r">>,
                 <<"R", "A", "I", "_", "O", "w", "n", "e", "r", "N", "a", "m", "e">>, <<"S", "a", "D", "_", "P", "r", "i", "n", "t", "A", "c", "c", "o", "u", "n", "t", "O", "w", "n", "e", "r", "N", "a", "m", "e">> }
        THEN { <<"client", <<"F", "u", "l", "l", " ", "N", "a", "m", "e">>>> }
      ELSE IF t \in { <<"P", "I", "_", "F", "i", "r", "s", "t", "N", "a", "m", "e", "0", "2">>, <<"P", "I", "_", "M", "I", "0", "2">>, <<"P", "I", "_", "L", "a", "s", "t", "N", "a", "m", "e", "0", "2">> }
        THEN { <<"co", <<"F", "u", "l", "l", " ", "N", "a", "m", "e">>>> } \cup Only({ <<"client", <<"C", "o", "-", "A", "c", "c", "o", "u", "n", "t", " ", "H", "o", "l", "d", "e", "r", " ", "N", "a", "m", "e">>>> })
      ELSE IF t = <<"P", "I", "_", "D", "O", "B">> THEN { <<"client", <<"D", "a", "t", "e", " ", "o", "f", " ", "B", "i", "r", "t", "h">>>> }
      ELSE IF t = <<"P", "I", "_", "D", "O", "B", "0", "2">>
        THEN { <<"co", <<"D", "a", "t", "e", " ", "o", "f", " ", "B", "i", "r", "t", "h">>>> } \cup Only({ <<"client", <<"C", "o", "-", "A", "c", "c", "o", "u", "n", "t", " ", "H", "o", "l", "d", "e", "r", " ", "D", "O", "B">>>> })
      ELSE IF t = <<"P", "I", "_", "S", "S", "N">>
        THEN { <<"client", <<"S", "S", "N">>>> } \cup Only({ <<"client", <<"S", "o", "c", "i", "a", "l", " ", "S", "e", "c", "u", "r", "i", "t", "y", " ", "N", "u", "m", "b", "e", "r">>>> })
      ELSE IF t = <<"A", "O", "_", "S", "o", "c", "i", "a", "l", "S", "e", "c", "u", "r", "i", "t", "y", "N", "u", "m", "b", "e", "r">>
        THEN { <<"client", <<"S", "S", "N">>>>, <<"client", <<"S", "o", "c", "i", "a", "l", " ", "S", "e", "c", "u", "r", "i", "t", "y", " ", "N", "u", "m", "b", "e", "r">>>> }
      ELSE IF t = <<"P", "I", "_", "S", "S", "N", "0", "2">>
        THEN { <<"co", <<"S", "S", "N">>>> } \cup Only({ <<"co", <<"S", "o", "c", "i", "a", "l", " ", "S", "e", "c", "u", "r", "i", "t", "y", " ", "N", "u", "m", "b", "e", "r">>>> })
      ELSE IF t = <<"P", "I", "_", "P", "r", "i", "m", "a", "r", "y", "M", "o", "b", "i", "l", "e", "P", "h", "o", "n", "e">>
        THEN { <<"client", <<"P", "h", "o", "n", "e">>>> } \cup Only({ <<"client", <<"M", "o", "b", "i", "l", "e", " ", "P", "h", "o", "n", "e">>>> })
      ELSE IF t = <<"P", "I", "_", "P", "r", "i", "m", "a", "r", "y", "M", "o", "b", "i", "l", "e", "P", "h", "o", "n", "e", "0", "2">>
        THEN { <<"co", <<"P", "h", "o", "n", "e">>>> } \cup Only({ <<"co", <<"M", "o", "b", "i", "l", "e", " ", "P", "h", "o", "n", "e">>>> })
      ELSE IF t = <<"P", "I", "_", "E", "m", "a", "i", "l">> THEN { <<"client", <<"E", "m", "a", "i", "l">>>> }
      ELSE IF t = <<"P", "I", "_", "E", "m", "a", "i", "l", "0", "2">> THEN { <<"co", <<"E", "m", "a", "i", "l">>>> }
      ELSE IF t \in { <<"P", "I", "_", "P", "e", "r", "m", "A", "d", "d", "r", "e", "s", "s">>, <<"P", "I", "_", "P", "e", "r", "m", "A", "d", "d", "r", "e", "s", "s", "C", "i", "t", "y">>, <<"P", "I", "_", "P", "e", "r", "m", "A", "d", "d", "r", "e", "s", "s", "S", "t", "a", "t", "e">>,
                      <<"P", "I", "_", "P", "e", "r", "m", "A", "d", "d", "r", "e", "s", "s", "Z", "i", "p">>, <<"P", "I", "_", "M", "a", "i", "l", "i", "n", "g", "A", "d", "d", "r", "e", "s", "s">>, <<"P", "I", "_", "M", "a", "i", "l", "i", "n", "g", "A", "d", "d", "r", "e", "s", "s", "C", "i", "t", "y">>,
                      <<"P", "I", "_", "M", "a", "i", "l", "i", "n", "g", "A", "d", "d", "r", "e", "s", "s", "S", "t", "a", "t", "e">>, <<"P", "I", "_", "M", "a", "i", "l", "i", "n", "g", "A", "d", "d", "r", "e", "s", "s", "Z", "i", "p">>,
                      <<"A", "S", "U", "_", "P", "e", "r", "m", "a", "n", "e", "n", "t", "A", "d", "d", "r", "e", "s", "s">>, <<"A", "S", "U", "_", "P", "e", "r", "m", "a", "n", "e", "n", "t", "A", "d", "d", "r", "e", "s", "s", "C", "i", "t", "y">>,
                      <<"A", "S", "U", "_", "P", "e", "r", "m", "a", "n", "e", "n", "t", "A", "d", "d", "r", "e", "s", "s", "S", "t", "a", "t", "e">>, <<"A", "S", "U", "_", "P", "e", "r", "m", "a", "n", "e", "n", "t", "A", "d", "d", "r", "e", "s", "s", "Z", "i", "p">> }
        THEN { <<"client", <<"A", "d", "d", "r", "e", "s", "s">>>> }
      ELSE IF t \in { <<"P", "I", "_", "P", "e", "r", "m", "A", "d", "d", "r", "e", "s", "s", "0", "2">>, <<"P", "I", "_", "P", "e", "r", "m", "A", "d", "d", "r", "e", "s", "s", "C", "i", "t", "y", "0", "2">>, <<"P", "I", "_", "P", "e", "r", "m", "A", "d", "d", "r", "e", "s", "s", "S", "t", "a", "t", "e", "0", "2">>,
                      <<"P", "I", "_", "P", "e", "r", "m", "A", "d", "d", "r", "e", "s", "s", "Z", "i", "p", "0", "2">>, <<"P", "I", "_", "M", "a", "i", "l", "i", "n", "g", "A", "d", "d", "r", "e", "s", "s", "0", "2">>,
                      <<"P", "I", "_", "M", "a", "i", "l", "i", "n", "g", "A", "d", "d", "r", "e", "s", "s", "C", "i", "t", "y", "0", "2">>, <<"P", "I", "_", "M", "a", "i", "l", "i", "n", "g", "A", "d", "d", "r", "e", "s", "s", "S", "t", "a", "t", "e", "0", "2">>,
                      <<"P", "I", "_", "M", "a", "i", "l", "i", "n", "g", "A", "d", "d", "r", "e", "s", "s", "Z", "i", "p", "0", "2">> }
        THEN { <<"co", <<"A", "d", "d", "r", "e", "s", "s">>>>, <<"client", <<"A", "d", "d", "r", "e", "s", "s">>>> }
      ELSE IF t = <<"P", "I", "_", "E", "I", "A", "E", "m", "p", "l", "o", "y", "e", "r", "N", "a", "m", "e">>
        THEN { <<"client", <<"E", "m", "p", "l", "o", "y", "e", "r">>>>, <<"client", <<"E", "m", "p", "l", "o", "y", "e", "r", " ", "N", "a", "m", "e">>>> }
      ELSE IF t = <<"A", "S", "U", "_", "N", "a", "m", "e", "o", "f", "T", "r", "u", "s", "t">>
        THEN { <<"client", <<"T", "r", "u", "s", "t", " ", "N", "a", "m", "e">>>>, <<"client", <<"E", "n", "t", "i", "t", "y", " ", "N", "a", "m", "e">>>>,
               <<"client", <<"F", "u", "l", "l", " ", "N", "a", "m", "e">>>> }
      ELSE IF t = <<"A", "S", "U", "_", "S", "S", "T", "I", "N">>
        THEN { <<"client", <<"T", "a", "x", " ", "I", "D">>>>, <<"client", <<"E", "I", "N">>>>, <<"client", <<"S", "S", "N">>>> }
      ELSE IF t = <<"A", "S", "U", "_", "D", "a", "t", "e", "O", "f", "T", "r", "u", "s", "t">>
        THEN { <<"client", <<"T", "r", "u", "s", "t", " ", "D", "a", "t", "e">>>>, <<"client", <<"D", "a", "t", "e", " ", "o", "f", " ", "T", "r", "u", "s", "t">>>> }
      ELSE IF t = <<"A", "S", "U", "_", "S", "t", "a", "t", "e", "W", "h", "e", "r", "e", "O", "r", "g", "a", "n", "i", "z", "e", "d">>
        THEN { <<"client", <<"S", "t", "a", "t", "e">>>>, <<"client", <<"A", "d", "d", "r", "e", "s", "s">>>> }
      ELSE {}

\* the source value s = <<record, key>> is missing: the key is absent or holds ""
IsMissingSource(s) ==
  Get(IF s[1] = "client" THEN mp_client ELSE OrEmpty(mp_co), s[2], <<>>) = <<>>

\* C16: for each supported document type and every household record, building
\* the target field map completes without raising, and every target key whose
\* source values are all missing holds the empty string.
C16_MissingIsEmpty ==
  /\ mp_pc = "raised" => mp_form \notin FormKeys
  /\ mp_pc \in {"filling", "filled"}
       => \A i \in 1..Len(mp_fields) :
            (/\ Sources(mp_form, mp_fields[i][1]) # {}
             /\ \A s \in Sources(mp_form, mp_fields[i][1]) : IsMissingSource(s))
              => mp_fields[i][2] = <<>>

\* the empty household record has been mapped to the personal application
C16_Witness ==
  /\ mp_pc = "filled"
  /\ mp_form = <<"I", "W", "S", "P", "e", "r", "s", "o", "n", "a", "l", "A", "p", "p">>
  /\ mp_client = <<>>
  /\ Has(mp_fields, <<"P", "I", "_", "F", "i", "r", "s", "t", "N", "a", "m", "e">>)
  /\ Get(mp_fields, <<"P", "I", "_", "F", "i", "r", "s", "t", "N", "a", "m", "e">>, <<"?">>) = <<>>

\* the target keys holding the date of the day
DateKeys == { <<"A", "S", "_", "D", "a", "t", "e", "0", "3">>, <<"A", "S", "_", "D", "a", "t", "e", "0", "4">>, <<"C", "T", "_", "D", "a", "t", "e", "0", "1">>, <<"C", "T", "_", "D", "a", "t", "e", "0", "2">>, <<"S", "D", "_", "D", "a", "t", "e">> }

\* the target keys holding the default country
CountryKeys ==
  { <<"P", "I", "_", "P", "e", "r", "m", "A", "d", "d", "r", "e", "s", "s", "C", "o", "u", "n", "t", "r", "y">>, <<"P", "I", "_", "M", "a", "i", "l", "i", "n", "g", "A", "d", "d", "r", "e", "s", "s", "C", "o", "u", "n", "t", "r", "y">>, <<"P", "I", "_", "P", "e", "r", "m", "A", "d", "d", "r", "e", "s", "s", "C", "o", "u", "n", "t", "r", "y", "0", "2">>,
    <<"P", "I", "_", "M", "a", "i", "l", "i", "n", "g", "A", "d", "d", "r", "e", "s", "s", "C", "o", "u", "n", "t", "r", "y", "0", "2">>, <<"A", "S", "U", "_", "P", "e", "r", "m", "a", "n", "e", "n", "t", "A", "d", "d", "r", "e", "s", "s", "C", "o", "u", "n", "t", "r", "y">> }

\* the values of the household record and of the second-party record
InputValues ==
  {mp_client[i][2] : i \in 1..Len(mp_client)}
    \cup {OrEmpty(mp_co)[i][2] : i \in 1..Len(OrEmpty(mp_co))}

\* every whitespace token of value occurs in an input value, or is the upper-cased
\* letter of one
IsDerived(value) ==
  \A k \in 1..Len(Split(value)) :
    LET t == Split(value)[k]
    IN  \E v \in InputValues :
          \/ Contains(v, t)
          \/ Len(t) = 1 /\ \E j \in 1..Len(v) : UpperChar(v[j]) = t[1]

\* C17 as stated: apart from the date-stamp keys, every non-empty value of the
\* target map is determined by a value of the input records, so the empty
\* household record yields no non-empty non-date value.
C17_NoFabrication ==
  mp_pc \in {"filling", "filled"}
    => \A i \in 1..Len(mp_fields) :
         (mp_fields[i][1] \notin DateKeys /\ mp_fields[i][2] # <<>>)
           => IsDerived(mp_fields[i][2])

\* C17: apart from the date-stamp keys, the country keys (always "USA") and
\* JR_FirmName (always "IWS"), every non-empty value of the target map is
\* determined by a value of the input records; the empty household record yields
\* no other non-empty value.
C17_DerivedExceptConstants ==
  mp_pc \in {"filling", "filled"}
    => \A i \in 1..Len(mp_fields) :
         LET t == mp_fields[i][1]
         IN  /\ (t \notin DateKeys \cup CountryKeys \cup {<<"J", "R", "_", "F", "i", "r", "m", "N", "a", "m", "e">>}
                   /\ mp_fields[i][2] # <<>>)
                  => IsDerived(mp_fields[i][2])
             /\ t \in CountryKeys => mp_fields[i][2] = <<"U", "S", "A">>
             /\ t = <<"J", "R", "_", "F", "i", "r", "m", "N", "a", "m", "e">> => mp_fields[i][2] = <<"I", "W", "S">>

\* a map holding a value taken from the record beside the default country
C17_Witness ==
  /\ mp_pc = "filled"
  /\ Get(mp_fields, <<"P", "I", "_", "P", "e", "r", "m", "A", "d", "d", "r", "e", "s", "s", "C", "i", "t", "y">>, <<>>) = <<"N", "a", "p", "e", "r", "v", "i", "l", "l", "e">>
  /\ Get(mp_fields, <<"P", "I", "_", "P", "e", "r", "m", "A", "d", "d", "r", "e", "s", "s", "C", "o", "u", "n", "t", "r", "y">>, <<>>) = <<"U", "S", "A">>

\* cell(0,0) and cell(0,1) of the table, trimmed and lower-cased
Cell00 == Lower(Strip(in_first[1]))
Cell01 == IF Len(in_first) > 1 THEN Lower(Strip(in_first[2])) ELSE <<>>

\* the detection step found the wide layout with a header row: the party labels
\* are the remaining cells of row 0 and the data begins at row 1
WideWithHeader ==
  /\ in_layout' = "wide"
  /\ in_labels' = [j \in 1..(Len(in_first) - 1) |-> Strip(in_first[j + 1])]
  /\ Len(in_raws') = Len(in_first) - 1
  /\ in_pc' = "rows"
  /\ in_fixed' = <<>>
  /\ in_anyrow' = FALSE

\* the detection step found the wide layout without a header row: synthetic
\* labels, one per non-label column, and row 0 is the first data row
WideWithoutHeader ==
  /\ in_layout' = "wide0"
  /\ in_labels' = [j \in 1..(in_ncols - 1) |-> <<"C", "l", "i", "e", "n", "t", " ">> \o Str(j)]
  /\ Len(in_raws') = in_ncols - 1
  /\ in_label' = Strip(in_first[1])
  /\ in_fixed' = Tail(in_first)
  /\ in_anyrow' = TRUE

\* the detection step found the key-value layout, of exactly one party
KeyValueLayout ==
  /\ in_layout' = "kv"
  /\ Len(in_raws') = 1
  /\ in_pc' = "kvrows"

\* C18 as stated: key-value iff cell(0,0) is "field" and cell(0,1) is "value";
\* otherwise wide with a header row iff cell(0,0) is blank; otherwise wide with
\* synthetic labels and row 0 as a data row.
C18_BlankOnly ==
  [][(in_pc = "detect" /\ in_first # <<>>)
       => IF Cell00 = <<"f", "i", "e", "l", "d">> /\ Cell01 = <<"v", "a", "l", "u", "e">> THEN KeyValueLayout
          ELSE IF Cell00 = <<>> THEN WideWithHeader
          ELSE WideWithoutHeader]_vars

\* C18 amended: key-value iff cell(0,0) is "field" and cell(0,1) is "value";
\* otherwise wide with a header row iff cell(0,0) is blank or reads "nan" or
\* "none"; otherwise wide with synthetic labels and row 0 as a data row.  A
\* key-value table yields exactly one party.
C18_LayoutOrder ==
  [][/\ (in_pc = "detect" /\ in_first # <<>>)
          => IF Cell00 = <<"f", "i", "e", "l", "d">> /\ Cell01 = <<"v", "a", "l", "u", "e">> THEN KeyValueLayout
             ELSE IF IsMissing(Cell00) THEN WideWithHeader
             ELSE WideWithoutHeader
     /\ (in_layout' = "kv" /\ in_pc' = "returned") => Len(in_result') = 1]_vars

\* a table without header row has been given the labels Client 1 and Client 2
C18_Witness ==
  /\ in_layout = "wide0"
  /\ in_labels = << <<"C", "l", "i", "e", "n", "t", " ", "1">>, <<"C", "l", "i", "e", "n", "t", " ", "2">> >>
  /\ in_pc = "cells"

\* C19: in the key-value layout there is exactly one raw record; a row whose
\* trimmed label is not blank, not "none" or "nan" (any case) and not "field"
\* maps its trimmed label to its trimmed value, whatever the value's text, and
\* every other row leaves the record as it is.
C19_KvRows ==
  [][/\ in_layout = "kv" => Len(in_raws) = 1
     /\ (in_pc = "kvrows" /\ in_pc' = "kvrows")
          => LET label == Strip(in_label')
                 val == Strip(in_cell')
             IN  IF label # <<>> /\ Lower(label) \notin {<<"n", "a", "n">>, <<"n", "o", "n", "e">>, <<"f", "i", "e", "l", "d">>}
                 THEN in_raws' = << Put(in_raws[1], label, val) >>
                 ELSE in_raws' = in_raws
     /\ (in_pc = "kvrows" /\ in_pc' = "returned")
          => in_result' = << NormalizeFields(in_raws[1]) >>]_vars

\* a row whose value reads "nan" has been recorded in the raw record
C19_Witness ==
  /\ in_layout = "kv"
  /\ in_pc = "kvrows"
  /\ in_label = <<" ", "D", "O", "B", " ">>
  /\ in_cell = <<"n", "a", "n">>
  /\ in_raws = << << <<<<"D", "O", "B">>, <<"n", "a", "n">>>> >> >>

(***************************************************************************)
(* The Onboarding page: the Fill & Download PDFs batch.                    *)
(***************************************************************************)
\* new_sel: the checked forms, in the order of FORM_CATALOG
Selections ==
  {s \in UNION {[1..n -> 1..Len(FORM_CATALOG)] : n \in 0..Len(FORM_CATALOG)} :
     \A i \in 1..(Len(s) - 1) : s[i] < s[i + 1]}

\* the intake records of the batch
BatchIntakes ==
  { <<>>,
    NormalizeFields(<< <<<<"F", "u", "l", "l", " ", "N", "a", "m", "e">>, <<"A", "n", "n", " ", "B", " ", "L", "e", "e">>>>, <<<<"A", "d", "d", "r", "e", "s", "s">>, <<"1", " ", "M", "a", "i", "n", " ", "S", "t", ",", " ", "T", "r", "o", "y">>>> >>) }

\* co_client: None, or the record built from holders[1]
BatchCoClients == { <<>>, << << <<<<"F", "u", "l", "l", " ", "N", "a", "m", "e">>, <<"B", "o", "b", " ", "R", "a", "y">>>> >> >> }

BatchInit ==
  /\ ob_pc = "page"
  /\ \E s \in Selections : ob_sel = [i \in 1..Len(s) |-> FORM_CATALOG[s[i]].key]
  /\ ob_broken \in SUBSET FormKeys
  /\ ob_intake \in BatchIntakes
  /\ ob_co \in BatchCoClients
  /\ ob_idx = 0
  /\ ob_filled = <<>>
  /\ ob_errors = <<>>
  /\ ob_pdfs = <<>>
  /\ ob_step = 1
  /\ ob_envelope_sent = FALSE
  /\ NormIdle
  /\ IntakeIdle
  /\ CtxIdle
  /\ RenderIdle
  /\ MapIdle
  /\ RaceIdle

\* the button is pressed: filled = {}, errors = []
ClickFill ==
  /\ ob_pc = "page"
  /\ ob_step = 1
  /\ ob_sel # <<>>
  /\ ob_filled' = <<>>
  /\ ob_errors' = <<>>
  /\ ob_idx' = 1
  /\ ob_pc' = "loop"
  /\ UNCHANGED <<ob_sel, ob_broken, ob_intake, ob_co, ob_pdfs, ob_step, ob_envelope_sent>>
  /\ UNCHANGED notBatch

\* fill_form returns the bytes of the form: filled[fkey] = pdf_bytes
FillDone ==
  /\ ob_pc = "loop"
  /\ ob_idx <= Len(ob_sel)
  /\ ob_sel[ob_idx] \notin ob_broken
  /\ ob_filled' = Put(ob_filled, ob_sel[ob_idx],
                      [file |-> FormFile(ob_sel[ob_idx]),
                       fields |-> FormFields(ob_sel[ob_idx], ob_intake, ob_co)])
  /\ ob_idx' = ob_idx + 1
  /\ UNCHANGED <<ob_pc, ob_sel, ob_broken, ob_intake, ob_co, ob_errors, ob_pdfs, ob_step,
                 ob_envelope_sent>>
  /\ UNCHANGED notBatch

\* fill_form raises: the exception is caught and appended to errors
FillError ==
  /\ ob_pc = "loop"
  /\ ob_idx <= Len(ob_sel)
  /\ ob_sel[ob_idx] \in ob_broken
  /\ ob_errors' = Append(ob_errors, ob_sel[ob_idx])
  /\ ob_idx' = ob_idx + 1
  /\ UNCHANGED <<ob_pc, ob_sel, ob_broken, ob_intake, ob_co, ob_filled, ob_pdfs, ob_step,
                 ob_envelope_sent>>
  /\ UNCHANGED notBatch

\* after the loop: session_state["ob_filled_pdfs"] = filled, then st.rerun()
\* starts the script again, and the locals filled and errors are gone
StoreAndRerun ==
  /\ ob_pc = "loop"
  /\ ob_idx > Len(ob_sel)
  /\ ob_pdfs' = ob_filled
  /\ ob_filled' = <<>>
  /\ ob_errors' = <<>>
  /\ ob_idx' = 0
  /\ ob_pc' = "rerun"
  /\ UNCHANGED <<ob_sel, ob_broken, ob_intake, ob_co, ob_step, ob_envelope_sent>>
  /\ UNCHANGED notBatch

BatchNext == ClickFill \/ FillDone \/ FillError \/ StoreAndRerun

SpecBatch == BatchInit /\ [][BatchNext]_vars

\* C15: after the batch each requested document type has either its rendered
\* bytes or a recorded failure retained for the caller.
C15_OutcomeRetained ==
  ob_pc = "rerun"
    => \A i \in 1..Len(ob_sel) :
         \/ Has(ob_pdfs, ob_sel[i])
         \/ \E k \in 1..Len(ob_errors) : ob_errors[k] = ob_sel[i]

\* a rule tested before the objective rule in the if/elif chain matches kl
MatchesBeforeObjective(kl) ==
  \/ IsFullNameLabel(kl)
  \/ kl \in {<<"f", "i", "r", "s", "t", " ", "n", "a", "m", "e">>, <<"f", "i", "r", "s", "t", "n", "a", "m", "e">>, <<"f", "i", "r", "s", "t">>, <<"l", "a", "s", "t", " ", "n", "a", "m", "e">>, <<"l", "a", "s", "t", "n", "a", "m", "e">>, <<"l", "a", "s", "t">>}
  \/ kl \in {<<"d", "o", "b">>, <<"d", "a", "t", "e", " ", "o", "f", " ", "b", "i", "r", "t", "h">>, <<"b", "i", "r", "t", "h", "d", "a", "t", "e">>, <<"b", "i", "r", "t", "h", " ", "d", "a", "t", "e">>}
  \/ kl \in {<<"a", "d", "d", "r", "e", "s", "s">>, <<"c", "i", "t", "y">>, <<"s", "t", "a", "t", "e">>, <<"z", "i", "p">>, <<"z", "i", "p", " ", "c", "o", "d", "e">>, <<"p", "o", "s", "t", "a", "l", " ", "c", "o", "d", "e">>,
             <<"p", "h", "o", "n", "e">>, <<"e", "m", "a", "i", "l">>}
  \/ Contains(kl, <<"a", "n", "n", "u", "a", "l", " ", "i", "n", "c", "o", "m", "e">>) \/ Contains(kl, <<"n", "e", "t", " ", "w", "o", "r", "t", "h">>) \/ Contains(kl, <<"l", "i", "q", "u", "i", "d">>)
  \/ kl \in {<<"e", "m", "p", "l", "o", "y", "e", "r">>, <<"c", "o", "m", "p", "a", "n", "y">>, <<"f", "i", "r", "m">>}
  \/ Contains(kl, <<"o", "c", "c", "u", "p", "a", "t", "i", "o", "n">>) \/ Contains(kl, <<"t", "i", "t", "l", "e">>) \/ Contains(kl, <<"j", "o", "b", " ", "t", "i", "t", "l", "e">>)

\* the labels of the raw records
RawLabelsUsed == UNION {{r[i][1] : i \in 1..Len(r)} : r \in RawRecords}

\* the labels handled by the objective rule
ObjectiveRuleLabels ==
  {k \in RawLabelsUsed :
     LET kl == Lower(Strip(k)) IN IsObjectiveLabel(kl) /\ ~MatchesBeforeObjective(kl)}

\* the labels handled by the risk-tolerance rule
RiskRuleLabels ==
  {k \in RawLabelsUsed :
     LET kl == Lower(Strip(k))
     IN  IsRiskToleranceLabel(kl) /\ ~IsObjectiveLabel(kl) /\ ~MatchesBeforeObjective(kl)}

\* the positions of nf_raw whose label is handled by the objective rule
ObjectiveRulePositions == {i \in 1..Len(nf_raw) : nf_raw[i][1] \in ObjectiveRuleLabels}

\* the positions of nf_raw whose label is handled by the risk-tolerance rule
RiskRulePositions == {i \in 1..Len(nf_raw) : nf_raw[i][1] \in RiskRuleLabels}

SecondAddressTargets ==
  << Get(mp_fields, <<"P", "I", "_", "P", "e", "r", "m", "A", "d", "d", "r", "e", "s", "s", "0", "2">>, <<>>), Get(mp_fields, <<"P", "I", "_", "P", "e", "r", "m", "A", "d", "d", "r", "e", "s", "s", "C", "i", "t", "y", "0", "2">>, <<>>),
     Get(mp_fields, <<"P", "I", "_", "P", "e", "r", "m", "A", "d", "d", "r", "e", "s", "s", "S", "t", "a", "t", "e", "0", "2">>, <<>>), Get(mp_fields, <<"P", "I", "_", "P", "e", "r", "m", "A", "d", "d", "r", "e", "s", "s", "Z", "i", "p", "0", "2">>, <<>>) >>

\* the second party's own address
SecondAddress == Get(OrEmpty(mp_co), <<"A", "d", "d", "r", "e", "s", "s">>, <<>>)

\* C24: when the second-party target keys are written, their street, city,
\* state and ZIP are all the decomposition of the second party's address or all
\* the decomposition of the primary's address, the primary's when the second
\* party's address is empty.
C24_OneAddress ==
  (/\ mp_pc \in {"filling", "filled"}
   /\ mp_form \in {<<"I", "W", "S", "P", "e", "r", "s", "o", "n", "a", "l", "A", "p", "p">>, <<"I", "W", "S", "T", "r", "u", "s", "t", "A", "p", "p">>}
   /\ Has(mp_fields, <<"P", "I", "_", "P", "e", "r", "m", "A", "d", "d", "r", "e", "s", "s", "0", "2">>))
    => LET own == SubSeq(ParseAddress(SecondAddress), 1, 4)
           prim == SubSeq(ParseAddress(ClientAddress), 1, 4)
       IN  /\ SecondAddressTargets \in {own, prim}
           /\ SecondAddress = <<>> => SecondAddressTargets = prim

\* C22: after every _save_to_registry, no two entries have names equal ignoring
\* case, the entry saved is the one _registry_entry returns for every casing of
\* its name, and the entries of all other names are returned unchanged.
C22_CaseInsensitiveKey ==
  [][cx_registry' # cx_registry
       => LET saved == cx_registry'[Len(cx_registry')]
          IN  /\ saved.sf_id = SfId(sf_seq)
              /\ \A i, j \in 1..Len(cx_registry') :
                   Lower(cx_registry'[i].name) = Lower(cx_registry'[j].name) => i = j
              /\ \A x \in {saved.name, Lower(saved.name), Upper(saved.name)} :
                   /\ HasRegistryEntry(cx_registry', x)
                   /\ RegistryEntry(cx_registry', x) = saved
              /\ \A i \in 1..Len(cx_registry) :
                   Lower(cx_registry[i].name) # Lower(saved.name)
                     => /\ HasRegistryEntry(cx_registry', Upper(cx_registry[i].name))
                        /\ RegistryEntry(cx_registry', Upper(cx_registry[i].name))
                             = cx_registry[i]]_vars

\* a second save under another casing of the name has replaced the first entry
C22_Witness ==
  /\ sf_seq = FirstSeq + 2
  /\ Len(cx_registry) = 1
  /\ cx_registry[1].name = <<"A", "N", "N", " ", "L", "E", "E">>
  /\ cx_registry[1].sf_id = SfId(FirstSeq + 1)

\* the registration of the record read from client_intake.xlsx
SampleRegistered ==
  /\ cx_registry' # cx_registry
  /\ cx_registry'[Len(cx_registry')].intake \in SampleIntakes

\* the beneficiary entries of the sample, as bene_parts formats them
SampleBeneficiaries ==
  << <<"R", "o", "b", "e", "r", "t", " ", "T", "h", "o", "r", "n", "t", "o", "n", " ", "J", "r", ".", " ", "(", "S", "o", "n", ")", " ", "5", "0", "%">>, <<"S", "a", "r", "a", "h", " ", "T", "h", "o", "r", "n", "t", "o", "n", " ", "(", "D", "a", "u", "g", "h", "t", "e", "r", ")", " ", "5", "0", "%">> >>

\* C21: reading and registering the file the sample generator writes (28 rows of
\* the key-value layout) yields one record, creates one contact that carries its
\* Annual Income, Est. Net Worth and Risk Tolerance, and stores the two
\* beneficiary entries, first then second, joined by "  |  ", in Description.
C21_SampleRegistered ==
  [][SampleRegistered
       => /\ LayoutOf(SampleHeader) = "kv"
          /\ \A advisor \in {<<"N", "o", "n", "e">>, <<>>} :
               /\ Len(SampleRows(advisor)) = 28
               /\ Len(ReadKeyValue(SampleRows(advisor))) = 1
          /\ Len(sf_records') = Len(sf_records) + 1
          /\ Len(SelectSeq(cx_registry', LAMBDA r : r.name = <<"R", "o", "b", "e", "r", "t", " ", "T", "h", "o", "r", "n", "t", "o", "n">>)) = 1
          /\ LET rec == sf_records'[Len(sf_records')][2]
             IN  /\ cx_registry'[Len(cx_registry')].sf_record = rec
                 /\ Get(rec, <<"A", "n", "n", "u", "a", "l", "_", "I", "n", "c", "o", "m", "e", "_", "_", "c">>, <<>>) = <<"2", "8", "5", "0", "0", "0">>
                 /\ Get(rec, <<"N", "e", "t", "_", "W", "o", "r", "t", "h", "_", "_", "c">>, <<>>) = <<"3", "2", "0", "0", "0", "0", "0">>
                 /\ Get(rec, <<"R", "i", "s", "k", "_", "T", "o", "l", "e", "r", "a", "n", "c", "e", "_", "_", "c">>, <<>>) = <<"M", "o", "d", "e", "r", "a", "t", "e", "-", "A", "g", "g", "r", "e", "s", "s", "i", "v", "e">>
                 /\ Get(rec, <<"D", "e", "s", "c", "r", "i", "p", "t", "i", "o", "n">>, <<>>)
                      = SampleBeneficiaries[1] \o <<" ", " ", "|", " ", " ">> \o SampleBeneficiaries[2]
                 /\ ~Has(rec, <<"N", "o", "t", "e", "s">>)]_vars

\* C21 as stated: the sample has 26 rows and the record has a Notes field that
\* holds the two beneficiary entries
C21_AsStated ==
  [][SampleRegistered
       => /\ \A advisor \in {<<"N", "o", "n", "e">>, <<>>} : Len(SampleRows(advisor)) = 26
          /\ LET rec == sf_records'[Len(sf_records')][2]
             IN  /\ Has(rec, <<"N", "o", "t", "e", "s">>)
                 /\ Contains(Get(rec, <<"N", "o", "t", "e", "s">>, <<>>), SampleBeneficiaries[1])
                 /\ Contains(Get(rec, <<"N", "o", "t", "e", "s">>, <<>>), SampleBeneficiaries[2])]_vars

\* the sample record has been registered and its contact stored
C21_Witness ==
  /\ cx_registry # <<>>
  /\ cx_registry[Len(cx_registry)].intake \in SampleIntakes
  /\ Len(sf_records) = Len(cx_registry)
  /\ Get(sf_records[Len(sf_records)][2], <<"N", "e", "t", "_", "W", "o", "r", "t", "h", "_", "_", "c">>, <<>>) = <<"3", "2", "0", "0", "0", "0", "0">>

\* C23: in fill mode a widget whose name is a key of the field map with a
\* non-empty value holds exactly that value, every other widget holds the value
\* the template gave it, and the widgets are the template's, in the same order;
\* no page is added.
C23_FillFrame ==
  (rd_pc = "done" /\ rd_template)
    => /\ rd_result = "template"
       /\ rd_pages = <<>>
       /\ Len(rd_widgets) = Len(TemplateWidgets)
       /\ \A i \in 1..Len(TemplateWidgets) :
            LET name == TemplateWidgets[i][1]
            IN  /\ rd_widgets[i][1] = name
                /\ rd_widgets[i][2] =
                     (IF Has(rd_fields, name) /\ Get(rd_fields, name, <<>>) # <<>>
                      THEN Get(rd_fields, name, <<>>)
                      ELSE TemplateWidgets[i][2])

\* a template filled from a map that has a value for one widget, an empty value
\* for another and no key for a third
C23_Witness ==
  /\ rd_pc = "done"
  /\ rd_result = "template"
  /\ Get(rd_fields, <<"P", "I", "_", "H", "o", "l", "d", "e", "r", "K", "e", "y", "1">>, <<>>) # <<>>
  /\ Get(rd_widgets, <<"P", "I", "_", "H", "o", "l", "d", "e", "r", "K", "e", "y", "1">>, <<>>) = Get(rd_fields, <<"P", "I", "_", "H", "o", "l", "d", "e", "r", "K", "e", "y", "1">>, <<>>)
  /\ Has(rd_fields, <<"P", "I", "_", "H", "o", "l", "d", "e", "r", "K", "e", "y", "2">>)
  /\ Get(rd_fields, <<"P", "I", "_", "H", "o", "l", "d", "e", "r", "K", "e", "y", "2">>, <<>>) = <<>>
  /\ Get(rd_widgets, <<"P", "I", "_", "H", "o", "l", "d", "e", "r", "K", "e", "y", "2">>, <<>>) = <<"o", "l", "d">>
  /\ ~Has(rd_fields, <<"A", "S", "_", "U", "n", "m", "a", "p", "p", "e", "d">>)
  /\ Get(rd_widgets, <<"A", "S", "_", "U", "n", "m", "a", "p", "p", "e", "d">>, <<>>) = <<"k", "e", "e", "p">>

\* the rows of the pages given, in page order
RECURSIVE RowsOf(_)
RowsOf(pages) == IF pages = <<>> THEN <<>> ELSE Head(pages).rows \o RowsOf(Tail(pages))

\* the non-empty pairs of the field map as the renderer draws them
ExpectedRows ==
  LET shown == SelectSeq(rd_fields, LAMBDA kv : kv[2] # <<>>)
  IN  [i \in 1..Len(shown) |-> <<RowLabel(shown[i][1]), RowValue(shown[i][2])>>]

\* C26: every page of a finished fallback document has one header band and one
\* footer line, while it is drawn every page but the open one has its footer,
\* and the rows of the pages, in page order, are the non-empty pairs of the field
\* map in map order, one row each.
C26_HeaderFooterRows ==
  /\ rd_pc = "rows"
       => /\ rd_pages # <<>>
          /\ \A p \in 1..Len(rd_pages) :
               /\ rd_pages[p].headers = 1
               /\ rd_pages[p].footers = (IF p < Len(rd_pages) THEN 1 ELSE 0)
  /\ (rd_pc = "done" /\ rd_result = "fallback")
       => /\ rd_pages # <<>>
          /\ \A p \in 1..Len(rd_pages) :
               rd_pages[p].headers = 1 /\ rd_pages[p].footers = 1
          /\ LET rows == RowsOf(rd_pages)
             IN  [i \in 1..Len(rows) |-> <<rows[i].label, rows[i].value>>] = ExpectedRows

\* a finished document of three pages whose field map has empty values between
\* the non-empty ones
C26_Witness ==
  /\ rd_pc = "done"
  /\ rd_result = "fallback"
  /\ Len(rd_pages) = 3
  /\ Len(rd_fields) > Len(RowsOf(rd_pages))
  /\ \A p \in 1..3 : rd_pages[p].footers = 1 /\ rd_pages[p].rows # <<>>

\* C29: after _save_account_data(name, bytes) has added a file for a registered
\* name, _client_has_excel(name) is true, find_client_file(name) finds the saved
\* file, and name is not in _registered_without_data().
C29_SavedCounts ==
  [][cx_files' # cx_files
       => \A name \in RegistryNames(cx_registry) :
            cx_files' = cx_files \cup {SlugStem(name)}
              => /\ ClientHasExcel(cx_files', name)
                 /\ FindClientFile(cx_files', name) = {SlugStem(name)}
                 /\ name \notin RegisteredWithoutData(cx_registry', cx_files')]_vars

(***************************************************************************)
(* The Onboarding page: the four steps of the workflow.                    *)
(***************************************************************************)
\* the intake records the Intake step can hand to the analysis: two clients,
\* or nothing loaded
WizardIntakes ==
  { <<>>,
    NormalizeFields(<< <<<<"F", "u", "l", "l", " ", "N", "a", "m", "e">>, <<"A", "n", "n", " ", "B", " ", "L", "e", "e">>>>, <<<<"A", "d", "d", "r", "e", "s", "s">>, <<"1", " ", "M", "a", "i", "n", " ", "S", "t", ",", " ", "T", "r", "o", "y">>>> >>),
    NormalizeFields(<< <<<<"F", "u", "l", "l", " ", "N", "a", "m", "e">>, <<"B", "o", "b", " ", "R", "a", "y">>>>, <<<<"E", "m", "a", "i", "l">>, <<"b", "o", "b", "@", "r", "a", "y", ".", "i", "o">>>> >>) }

\* recommended_forms of the analysis: none, one form, or the list of the fallback
Recommended ==
  { <<>>, <<<<"I", "W", "S", "P", "e", "r", "s", "o", "n", "a", "l", "A", "p", "p">>>>, <<<<"I", "W", "S", "P", "e", "r", "s", "o", "n", "a", "l", "A", "p", "p">>, <<"A", "d", "d", "R", "e", "m", "o", "v", "e", "A", "d", "v", "i", "s", "o", "r">>>> }

\* the forms whose checkbox the advisor changes
WizardForms == {<<"I", "W", "S", "P", "e", "r", "s", "o", "n", "a", "l", "A", "p", "p">>, <<"A", "d", "d", "R", "e", "m", "o", "v", "e", "A", "d", "v", "i", "s", "o", "r">>}

\* new_sel after the checkbox of fkey has been changed: the checked forms in the
\* order of FORM_CATALOG
Toggle(sel, fkey) ==
  LET was == {sel[i] : i \in 1..Len(sel)}
      now == IF fkey \in was THEN was \ {fkey} ELSE was \cup {fkey}
  IN  SelectSeq([i \in 1..Len(FORM_CATALOG) |-> FORM_CATALOG[i].key], LAMBDA k : k \in now)

\* the session state the setdefault calls give a new session
WizardInit ==
  /\ ob_pc = "page"
  /\ ob_step = 0
  /\ ob_sel = <<>>
  /\ ob_broken \in {{}, {<<"A", "d", "d", "R", "e", "m", "o", "v", "e", "A", "d", "v", "i", "s", "o", "r">>}}
  /\ ob_intake = <<>>
  /\ ob_co = <<>>
  /\ ob_idx = 0
  /\ ob_filled = <<>>
  /\ ob_errors = <<>>
  /\ ob_pdfs = <<>>
  /\ ob_envelope_sent = FALSE
  /\ NormIdle
  /\ IntakeIdle
  /\ CtxIdle
  /\ RenderIdle
  /\ MapIdle
  /\ RaceIdle

\* the script run that follows st.rerun(): the page of the current step is drawn
ShowPage ==
  /\ ob_pc = "rerun"
  /\ ob_pc' = "page"
  /\ UNCHANGED <<ob_sel, ob_broken, ob_intake, ob_co, ob_idx, ob_filled, ob_errors,
                 ob_pdfs, ob_step, ob_envelope_sent>>
  /\ UNCHANGED notBatch

\* step 0, "Analyze with AI" pressed (enabled when intake data is loaded) and the
\* analysis is an object: the intake, the holders and the recommended forms are
\* stored and the Forms step follows
Analyze ==
  /\ ob_pc = "page"
  /\ ob_step = 0
  /\ \E ob_intake_data \in WizardIntakes, rec \in Recommended, co \in BatchCoClients :
       /\ ob_intake_data # <<>>
       /\ ob_intake' = ob_intake_data
       /\ ob_co' = co
       /\ ob_sel' = rec
  /\ ob_step' = 1
  /\ UNCHANGED <<ob_pc, ob_broken, ob_idx, ob_filled, ob_errors, ob_pdfs, ob_envelope_sent>>
  /\ UNCHANGED notBatch

\* step 0, "Analyze with AI" pressed and the analysis is JSON that is not an
\* object: ob_intake is stored, then analysis.get raises
AnalyzeRaises ==
  /\ ob_pc = "page"
  /\ ob_step = 0
  /\ \E ob_intake_data \in WizardIntakes :
       /\ ob_intake_data # <<>>
       /\ ob_intake' = ob_intake_data
  /\ UNCHANGED <<ob_pc, ob_sel, ob_broken, ob_co, ob_idx, ob_filled, ob_errors, ob_pdfs,
                 ob_step, ob_envelope_sent>>
  /\ UNCHANGED notBatch

\* step 1, a checkbox is changed: ob_selected_forms = new_sel
CheckForm ==
  /\ ob_pc = "page"
  /\ ob_step = 1
  /\ \E fkey \in WizardForms : ob_sel' = Toggle(ob_sel, fkey)
  /\ UNCHANGED <<ob_pc, ob_broken, ob_intake, ob_co, ob_idx, ob_filled, ob_errors, ob_pdfs,
                 ob_step, ob_envelope_sent>>
  /\ UNCHANGED notBatch

\* step 1, "Back"
BackToIntake ==
  /\ ob_pc = "page"
  /\ ob_step = 1
  /\ ob_step' = 0
  /\ UNCHANGED <<ob_pc, ob_sel, ob_broken, ob_intake, ob_co, ob_idx, ob_filled, ob_errors,
                 ob_pdfs, ob_envelope_sent>>
  /\ UNCHANGED notBatch

\* step 1, "Proceed to DocuSign" with no test of new_sel
ProceedAlways ==
  /\ ob_pc = "page"
  /\ ob_step = 1
  /\ ob_step' = 2
  /\ UNCHANGED <<ob_pc, ob_sel, ob_broken, ob_intake, ob_co, ob_idx, ob_filled, ob_errors,
                 ob_pdfs, ob_envelope_sent>>
  /\ UNCHANGED notBatch

\* step 1, "Proceed to DocuSign", enabled when a form is checked
Proceed ==
  /\ ob_pc = "page"
  /\ ob_step = 1
  /\ ob_sel # <<>>
  /\ ob_step' = 2
  /\ UNCHANGED <<ob_pc, ob_sel, ob_broken, ob_intake, ob_co, ob_idx, ob_filled, ob_errors,
                 ob_pdfs, ob_envelope_sent>>
  /\ UNCHANGED notBatch

\* step 2, "Back"
BackToForms ==
  /\ ob_pc = "page"
  /\ ob_step = 2
  /\ ob_step' = 1
  /\ UNCHANGED <<ob_pc, ob_sel, ob_broken, ob_intake, ob_co, ob_idx, ob_filled, ob_errors,
                 ob_pdfs, ob_envelope_sent>>
  /\ UNCHANGED notBatch

\* step 2, "Send via DocuSign"
SendEnvelope ==
  /\ ob_pc = "page"
  /\ ob_step = 2
  /\ ob_envelope_sent' = TRUE
  /\ ob_step' = 3
  /\ UNCHANGED <<ob_pc, ob_sel, ob_broken, ob_intake, ob_co, ob_idx, ob_filled, ob_errors,
                 ob_pdfs>>
  /\ UNCHANGED notBatch

\* step 3, "Start New Onboarding": every key that starts with "ob_" is deleted and
\* the next run sets the defaults again
StartNew ==
  /\ ob_pc = "page"
  /\ ob_step = 3
  /\ ob_step' = 0
  /\ ob_sel' = <<>>
  /\ ob_intake' = <<>>
  /\ ob_co' = <<>>
  /\ ob_pdfs' = <<>>
  /\ ob_envelope_sent' = FALSE
  /\ UNCHANGED <<ob_pc, ob_broken, ob_idx, ob_filled, ob_errors>>
  /\ UNCHANGED notBatch

WizardNext ==
  \/ Analyze
  \/ AnalyzeRaises
  \/ CheckForm
  \/ ClickFill
  \/ FillDone
  \/ FillError
  \/ StoreAndRerun
  \/ ShowPage
  \/ BackToIntake
  \/ Proceed
  \/ BackToForms
  \/ SendEnvelope
  \/ StartNew

SpecWizard == WizardInit /\ [][WizardNext]_vars

\* the documents the Forms step offers for download: the checked forms that
\* have bytes in ob_filled_pdfs
Offered == {i \in 1..Len(ob_sel) : Has(ob_pdfs, ob_sel[i])}

\* C27: every document offered for download at the Forms step was rendered from
\* the intake now in ob_intake.
C27_PdfsOfCurrentIntake ==
  (ob_step = 1 /\ ob_pc = "page")
    => \A i \in Offered :
         \E co \in BatchCoClients :
           Get(ob_pdfs, ob_sel[i], <<>>).fields = FormFields(ob_sel[i], ob_intake, co)

\* C28: ob_step is 0, 1, 2 or 3; at step 3 the envelope has been sent; at steps
\* 2 and 3 a form is selected and the intake is not empty; and ob_step changes
\* only 0 to 1 (with intake data), 1 to 0, 1 to 2 (with a form checked), 2 to 1,
\* 2 to 3 (envelope sent) and 3 to 0 (the ob_ keys back at their defaults).
C28_StepMachine ==
  /\ [](/\ ob_step \in 0..3
        /\ ob_step = 3 => ob_envelope_sent
        /\ ob_step \in {2, 3} => (ob_sel # <<>> /\ ob_intake # <<>>))
  /\ [][ob_step' # ob_step
          => \/ ob_step = 0 /\ ob_step' = 1 /\ ob_intake' # <<>>
             \/ ob_step = 1 /\ ob_step' = 0
             \/ ob_step = 1 /\ ob_step' = 2 /\ ob_sel # <<>>
             \/ ob_step = 2 /\ ob_step' = 1
             \/ ob_step = 2 /\ ob_step' = 3 /\ ob_envelope_sent'
             \/ /\ ob_step = 3 /\ ob_step' = 0
                /\ ob_sel' = <<>> /\ ob_intake' = <<>> /\ ob_pdfs' = <<>>
                /\ ~ob_envelope_sent']_vars

\* the Post-Close step reached after documents were filled and the envelope sent
C28_Witness ==
  /\ ob_step = 3
  /\ ob_envelope_sent
  /\ ob_sel # <<>>
  /\ ob_pdfs # <<>>

(***************************************************************************)
(* Two sessions registering at the same time: MockSalesforce.create_contact *)
(* and _save_to_registry as the separate reads and writes they are made of. *)
(***************************************************************************)
\* the records the two sessions register
RaceIntakes ==
  { NormalizeFields(<< <<<<"F", "i", "r", "s", "t", " ", "N", "a", "m", "e">>, <<"A", "n", "n">>>>, <<<<"L", "a", "s", "t", " ", "N", "a", "m", "e">>, <<"L", "e", "e">>>> >>),
    NormalizeFields(<< <<<<"F", "i", "r", "s", "t", " ", "N", "a", "m", "e">>, <<"B", "o", "b">>>>, <<<<"L", "a", "s", "t", " ", "N", "a", "m", "e">>, <<"R", "a", "y">>>> >>) }

\* the registrations that have started and not yet returned
Registering == {s \in Sessions : rc_local[s].pc # "idle"}

RaceInit ==
  /\ CtxInit
  /\ cx_files = {}
  /\ ~cx_haskey

\* create_contact: sf_id is formatted from the value of cls._seq read now
ReadSeq(s) ==
  /\ rc_local[s].pc = "idle"
  /\ Len(rc_done) + Cardinality(Registering) < MaxContacts
  /\ \E intake \in RaceIntakes :
       rc_local' = [rc_local EXCEPT ![s] =
                      [IdleLocal EXCEPT !.pc = "load", !.intake = intake, !.seq = sf_seq]]
  /\ UNCHANGED <<ctxVars, rc_done>>
  /\ UNCHANGED notRace

\* cls._seq += 1, the read
IncrLoad(s) ==
  /\ rc_local[s].pc = "load"
  /\ rc_local' = [rc_local EXCEPT ![s].pc = "store", ![s].tmp = sf_seq]
  /\ UNCHANGED <<ctxVars, rc_done>>
  /\ UNCHANGED notRace

\* cls._seq += 1, the write
IncrStore(s) ==
  /\ rc_local[s].pc = "store"
  /\ sf_seq' = rc_local[s].tmp + 1
  /\ rc_local' = [rc_local EXCEPT ![s].pc = "record"]
  /\ UNCHANGED <<cx_pc, cx_haskey, cx_files, cx_registry, sf_records, cx_client, cx_sent,
                 rc_done>>
  /\ UNCHANGED notRace

\* cls._records[sf_id] = record
StoreRecord(s) ==
  /\ rc_local[s].pc = "record"
  /\ sf_records' = Put(sf_records, SfId(rc_local[s].seq),
                       SfRecord(rc_local[s].seq, UtcNow(rc_local[s].seq - FirstSeq),
                                rc_local[s].intake))
  /\ rc_local' = [rc_local EXCEPT ![s].pc = "get"]
  /\ UNCHANGED <<cx_pc, cx_haskey, cx_files, cx_registry, sf_seq, cx_client, cx_sent,
                 rc_done>>
  /\ UNCHANGED notRace

\* _do_register: sf_record = MockSalesforce._records.get(sf_id, {})
GetRecord(s) ==
  /\ rc_local[s].pc = "get"
  /\ rc_local' = [rc_local EXCEPT ![s].pc = "regload",
                                  ![s].record = Get(sf_records, SfId(rc_local[s].seq), <<>>)]
  /\ UNCHANGED <<ctxVars, rc_done>>
  /\ UNCHANGED notRace

\* _save_to_registry: records = _load_registry()
LoadRegistry(s) ==
  /\ rc_local[s].pc = "regload"
  /\ rc_local' = [rc_local EXCEPT ![s].pc = "regwrite", ![s].loaded = cx_registry]
  /\ UNCHANGED <<ctxVars, rc_done>>
  /\ UNCHANGED notRace

\* _save_to_registry: the list built from the records loaded is written, and the
\* registration returns
WriteRegistry(s) ==
  /\ rc_local[s].pc = "regwrite"
  /\ cx_registry' = SaveToRegistry(rc_local[s].loaded, ClientFull(rc_local[s].intake),
                                    SfId(rc_local[s].seq),
                                    UtcNow(rc_local[s].seq - FirstSeq),
                                    rc_local[s].intake, rc_local[s].record)
  /\ rc_done' = Append(rc_done, <<ClientFull(rc_local[s].intake), SfId(rc_local[s].seq)>>)
  /\ rc_local' = [rc_local EXCEPT ![s] = IdleLocal]
  /\ UNCHANGED <<cx_pc, cx_haskey, cx_files, sf_seq, sf_records, cx_client, cx_sent>>
  /\ UNCHANGED notRace

RaceNext ==
  \E s \in Sessions :
    \/ ReadSeq(s)
    \/ IncrLoad(s)
    \/ IncrStore(s)
    \/ StoreRecord(s)
    \/ GetRecord(s)
    \/ LoadRegistry(s)
    \/ WriteRegistry(s)

SpecRace == RaceInit /\ [][RaceNext]_vars

\* C30: when every registration has returned, the ids handed out are pairwise
\* distinct, every one of them has its record in the store, and every registered
\* name has its entry in the registry.
C30_NoLostRegistration ==
  Registering = {}
    => /\ \A i, j \in 1..Len(rc_done) : i # j => rc_done[i][2] # rc_done[j][2]
       /\ \A i \in 1..Len(rc_done) : Has(sf_records, rc_done[i][2])
       /\ Len(sf_records) = Len(rc_done)
       /\ \A i \in 1..Len(rc_done) : HasRegistryEntry(cx_registry, rc_done[i][1])

====
